---- MODULE Spec2Model ----
(***************************************************************************)
(* Versioned migration engine of the gc/bc client: the version model       *)
(* (utils/version.js), the migration executor (utils/migrations.js), the   *)
(* migration strategies (utils/migrationStrategies.js) and the version     *)
(* tracker (utils/versionService.js) over the browser's localStorage.      *)
(***************************************************************************)
EXTENDS Integers, Sequences, FiniteSets, TLC

(***************************************************************************)
(* Strings the code inspects character by character (version strings) are  *)
(* sequences of one-character strings.  No string of the model contains a   *)
(* line terminator, the only character the "." of the regular expression    *)
(* of parseVersion does not match.                                          *)
(***************************************************************************)
V_1_0_0_alpha == <<"1", ".", "0", ".", "0", "-", "a", "l", "p", "h", "a">>
V_1_0_0_beta  == <<"1", ".", "0", ".", "0", "-", "b", "e", "t", "a">>
V_1_0_0       == <<"1", ".", "0", ".", "0">>
V_1_1_0       == <<"1", ".", "1", ".", "0">>
V_1_2_0       == <<"1", ".", "2", ".", "0">>
V_1_10_0      == <<"1", ".", "1", "0", ".", "0">>
V_2_0_0       == <<"2", ".", "0", ".", "0">>
S_empty       == << >>
S_malformed   == <<"v", "1", ".", "1">>

Digits == {"0", "1", "2", "3", "4", "5", "6", "7", "8", "9"}

\* UTF-16 code unit of a character (JavaScript compares strings by code unit)
CharCode(c) ==
    CASE c = "-" -> 45
      [] c = "." -> 46
      [] c \in Digits -> 48 + (CHOOSE d \in 0..9 : ToString(d) = c)
      [] c = "a" -> 97
      [] c = "b" -> 98
      [] c = "e" -> 101
      [] c = "h" -> 104
      [] c = "l" -> 108
      [] c = "p" -> 112
      [] c = "t" -> 116
      [] c = "v" -> 118

\* x > y on JavaScript strings: lexicographic by code unit, a proper prefix is smaller
RECURSIVE StringGreater(_, _)
StringGreater(x, y) ==
    IF x = << >> THEN FALSE
    ELSE IF y = << >> THEN TRUE
    ELSE IF CharCode(Head(x)) # CharCode(Head(y))
         THEN CharCode(Head(x)) > CharCode(Head(y))
         ELSE StringGreater(Tail(x), Tail(y))

\* number of characters of the maximal run of digits of s that starts at position i (\d+)
RECURSIVE DigitRun(_, _)
DigitRun(s, i) ==
    IF i <= Len(s) /\ s[i] \in Digits THEN 1 + DigitRun(s, i + 1) ELSE 0

\* parseInt(digits, 10) of the digits s[i] .. s[i + n - 1]
RECURSIVE ParseInt(_, _, _)
ParseInt(s, i, n) ==
    IF n = 0 THEN 0
    ELSE 10 * ParseInt(s, i, n - 1) + (CharCode(s[i + n - 1]) - 48)

\* the value of a parseVersion call that throws "Invalid version format"
ParseError(versionStr) ==
    [ok |-> FALSE, major |-> 0, minor |-> 0, patch |-> 0,
     hasLabel |-> FALSE, label |-> << >>, raw |-> versionStr]

\* mutant of parseVersion: the label group may be empty, as with (?:-(.*))?
parseVersion_emptyLabel(versionStr) ==
    LET s  == versionStr
        n1 == DigitRun(s, 1)
        p2 == n1 + 2
        n2 == DigitRun(s, p2)
        p3 == p2 + n2 + 1
        n3 == DigitRun(s, p3)
        e  == p3 + n3
    IN  IF /\ n1 >= 1 /\ n1 + 1 <= Len(s) /\ s[n1 + 1] = "."
           /\ n2 >= 1 /\ p2 + n2 <= Len(s) /\ s[p2 + n2] = "."
           /\ n3 >= 1
           /\ \/ e = Len(s) + 1
              \/ e <= Len(s) /\ s[e] = "-"
        THEN [ok |-> TRUE,
              major |-> ParseInt(s, 1, n1),
              minor |-> ParseInt(s, p2, n2),
              patch |-> ParseInt(s, p3, n3),
              hasLabel |-> e < Len(s),
              label |-> IF e < Len(s) THEN SubSeq(s, e + 1, Len(s)) ELSE << >>,
              raw |-> versionStr]
        ELSE ParseError(versionStr)

\* parseVersion: match /^(\d+)\.(\d+)\.(\d+)(?:-(.+))?$/, throw when there is no match;
\* label is match[4] || null (hasLabel = FALSE stands for null)
parseVersion(versionStr) ==
    LET s  == versionStr
        n1 == DigitRun(s, 1)
        p2 == n1 + 2
        n2 == DigitRun(s, p2)
        p3 == p2 + n2 + 1
        n3 == DigitRun(s, p3)
        e  == p3 + n3
    IN  IF /\ n1 >= 1 /\ n1 + 1 <= Len(s) /\ s[n1 + 1] = "."
           /\ n2 >= 1 /\ p2 + n2 <= Len(s) /\ s[p2 + n2] = "."
           /\ n3 >= 1
           /\ \/ e = Len(s) + 1
              \/ e < Len(s) /\ s[e] = "-"
        THEN [ok |-> TRUE,
              major |-> ParseInt(s, 1, n1),
              minor |-> ParseInt(s, p2, n2),
              patch |-> ParseInt(s, p3, n3),
              hasLabel |-> e <= Len(s),
              label |-> IF e <= Len(s) THEN SubSeq(s, e + 1, Len(s)) ELSE << >>,
              raw |-> versionStr]
        ELSE ParseError(versionStr)

\* mutant of compareVersions: a labelled version ranks above the unlabelled one
compareVersions_labelAbove(versionA, versionB) ==
    LET a == parseVersion(versionA)
        b == parseVersion(versionB)
    IN  IF ~a.ok \/ ~b.ok THEN [threw |-> TRUE, value |-> 0]
        ELSE [threw |-> FALSE,
              value |->
                IF a.major # b.major THEN (IF a.major > b.major THEN 1 ELSE -1)
                ELSE IF a.minor # b.minor THEN (IF a.minor > b.minor THEN 1 ELSE -1)
                ELSE IF a.patch # b.patch THEN (IF a.patch > b.patch THEN 1 ELSE -1)
                ELSE IF ~a.hasLabel /\ b.hasLabel THEN -1
                ELSE IF a.hasLabel /\ ~b.hasLabel THEN 1
                ELSE IF a.label = b.label THEN 0
                ELSE IF StringGreater(a.label, b.label) THEN 1 ELSE -1]

\* mutant of compareVersions: two equal labels are not recognised as equal
compareVersions_noEqualLabels(versionA, versionB) ==
    LET a == parseVersion(versionA)
        b == parseVersion(versionB)
    IN  IF ~a.ok \/ ~b.ok THEN [threw |-> TRUE, value |-> 0]
        ELSE [threw |-> FALSE,
              value |->
                IF a.major # b.major THEN (IF a.major > b.major THEN 1 ELSE -1)
                ELSE IF a.minor # b.minor THEN (IF a.minor > b.minor THEN 1 ELSE -1)
                ELSE IF a.patch # b.patch THEN (IF a.patch > b.patch THEN 1 ELSE -1)
                ELSE IF ~a.hasLabel /\ b.hasLabel THEN 1
                ELSE IF a.hasLabel /\ ~b.hasLabel THEN -1
                ELSE IF ~a.hasLabel /\ ~b.hasLabel THEN 0
                ELSE IF StringGreater(a.label, b.label) THEN 1 ELSE -1]

\* compareVersions: threw = one of the two strings does not parse (the Error of
\* parseVersion propagates), otherwise value is -1, 0 or 1
compareVersions(versionA, versionB) ==
    LET a == parseVersion(versionA)
        b == parseVersion(versionB)
    IN  IF ~a.ok \/ ~b.ok THEN [threw |-> TRUE, value |-> 0]
        ELSE [threw |-> FALSE,
              value |->
                IF a.major # b.major THEN (IF a.major > b.major THEN 1 ELSE -1)
                ELSE IF a.minor # b.minor THEN (IF a.minor > b.minor THEN 1 ELSE -1)
                ELSE IF a.patch # b.patch THEN (IF a.patch > b.patch THEN 1 ELSE -1)
                ELSE IF ~a.hasLabel /\ b.hasLabel THEN 1
                ELSE IF a.hasLabel /\ ~b.hasLabel THEN -1
                ELSE IF a.label = b.label THEN 0
                ELSE IF StringGreater(a.label, b.label) THEN 1 ELSE -1]


(***************************************************************************)
(* State.  APP_VERSION, VERSION_HISTORY and migrations are the constants a  *)
(* build of the client compiles in; they are chosen in Init and never       *)
(* change.  localStorage is the browser store: a map from the keys that are *)
(* present to their values.  calls holds, for every caller of               *)
(* initializeVersioning, where that invocation stands and its local values. *)
(* faults counts the procedure invocations that failed by themselves.       *)
(* probe holds the arguments and the value of the latest direct call of a   *)
(* function of the library (the specifications that exercise one function). *)
(***************************************************************************)
VARIABLES APP_VERSION, VERSION_HISTORY, migrations, localStorage, calls, nCalls, faults,
          probe

vars == <<APP_VERSION, VERSION_HISTORY, migrations, localStorage, calls, nCalls, faults,
          probe>>

build == <<APP_VERSION, VERSION_HISTORY, migrations>>

\* bounds of the model
MaxCalls == 2
MaxFaults == 1
MaxCompanies == 1
MaxRecords == 2

\* longest string over Alphabet that parseVersion is called with
MaxLen == 7

\* ---------------------------------------------------------------- version.js

\* insert entry e into the sorted sequence s, after the entries that do not compare
\* greater (Array.prototype.sort is stable)
RECURSIVE InsertSorted(_, _)
InsertSorted(s, e) ==
    IF s = << >> THEN <<e>>
    ELSE IF compareVersions(Head(s).version, e.version).value > 0
         THEN <<e>> \o s
         ELSE <<Head(s)>> \o InsertSorted(Tail(s), e)

\* mutant of SortHistory: the history is used in the order it is written
SortHistory_unsorted(history) == history

\* [...VERSION_HISTORY].sort((a, b) => compareVersions(a.version, b.version))
RECURSIVE SortHistory(_)
SortHistory(history) ==
    IF history = << >> THEN << >>
    ELSE InsertSorted(SortHistory(SubSeq(history, 1, Len(history) - 1)),
                      history[Len(history)])

\* findIndex((v) => v.version === version): 1-based, 0 where JavaScript gives -1
FindIndex(sorted, version) ==
    IF \E i \in 1..Len(sorted) : sorted[i].version = version
    THEN CHOOSE i \in 1..Len(sorted) :
            /\ sorted[i].version = version
            /\ \A j \in 1..(i - 1) : sorted[j].version # version
    ELSE 0

\* filter((v) => v.requiresMigration)
RECURSIVE FilterRequiresMigration(_)
FilterRequiresMigration(s) ==
    IF s = << >> THEN << >>
    ELSE IF Head(s).requiresMigration
         THEN <<Head(s)>> \o FilterRequiresMigration(Tail(s))
         ELSE FilterRequiresMigration(Tail(s))

\* mutant of getMigrationPath: the slice starts at fromIndex instead of fromIndex + 1
getMigrationPath_includesFrom(history, fromVersion, toVersion) ==
    IF fromVersion = toVersion THEN [threw |-> FALSE, path |-> << >>]
    ELSE LET sortedVersions == SortHistory(history)
             fromIndex == FindIndex(sortedVersions, fromVersion)
             toIndex == FindIndex(sortedVersions, toVersion)
         IN  IF fromIndex = 0 \/ toIndex = 0 THEN [threw |-> FALSE, path |-> << >>]
             ELSE [threw |-> FALSE,
                   path |-> FilterRequiresMigration(
                                SubSeq(sortedVersions, fromIndex, toIndex))]

\* getMigrationPath(fromVersion, toVersion) over VERSION_HISTORY = history.
\* threw: the comparator of the sort threw (a history entry that does not parse).
\* An unknown version gives the empty path (after console.error), not an error.
getMigrationPath(history, fromVersion, toVersion) ==
    IF fromVersion = toVersion THEN [threw |-> FALSE, path |-> << >>]
    ELSE IF /\ Len(history) >= 2
            /\ \E i \in 1..Len(history) : ~parseVersion(history[i].version).ok
         THEN [threw |-> TRUE, path |-> << >>]
    ELSE LET sortedVersions == SortHistory(history)
             fromIndex == FindIndex(sortedVersions, fromVersion)
             toIndex == FindIndex(sortedVersions, toVersion)
         IN  IF fromIndex = 0 \/ toIndex = 0 THEN [threw |-> FALSE, path |-> << >>]
             ELSE [threw |-> FALSE,
                   path |-> FilterRequiresMigration(
                                SubSeq(sortedVersions, fromIndex + 1, toIndex))]

\* needsMigration(fromVersion, toVersion) over VERSION_HISTORY = history, migrateFrom
\* being the migrateFrom array of the entry find() returns for toVersion.
\* threw: compareVersions threw on an argument that does not parse.
needsMigration(history, migrateFrom, fromVersion, toVersion) ==
    IF fromVersion = toVersion THEN [threw |-> FALSE, value |-> FALSE]
    ELSE LET compared == compareVersions(fromVersion, toVersion)
             targetIndex == FindIndex(history, toVersion)
         IN  IF compared.threw THEN [threw |-> TRUE, value |-> FALSE]
             ELSE IF compared.value < 0
             THEN IF targetIndex = 0 THEN [threw |-> FALSE, value |-> FALSE]
                  ELSE [threw |-> FALSE,
                        value |-> /\ history[targetIndex].requiresMigration
                                  /\ fromVersion \in migrateFrom]
             ELSE [threw |-> FALSE, value |-> TRUE]

\* ------------------------------------------------------- localStorage (browser)

\* LOCAL_STORAGE_KEYS.APP_VERSION, LOCAL_STORAGE_KEYS.COMPANIES and one key of the UI settings
VERSION_STORAGE_KEY == "app_version"
COMPANIES_KEY == "companies"
SENTIMENT_CHARTS_ORDER == "sentimentChartsOrder"

\* localStorage.getItem(key) !== null
HasItem(store, key) == key \in DOMAIN store

\* localStorage.setItem(key, value)
SetItem(store, key, value) ==
    [k \in (DOMAIN store) \cup {key} |-> IF k = key THEN value ELSE store[k]]

\* localStorage.removeItem(key)
RemoveItem(store, key) ==
    [k \in (DOMAIN store) \ {key} |-> store[k]]

(***************************************************************************)
(* The text stored under "companies" is modelled by what JSON.parse makes   *)
(* of it: kind "garbage" is a text JSON.parse throws on, kind "array" is    *)
(* the JSON text of an array of objects, recs.  An object is a function     *)
(* from the field names to the field's value: Absent where the object has   *)
(* no such property (the value JavaScript reads is undefined), Null for     *)
(* the JSON null; any other value is named by its text (the number 1 by     *)
(* "1").                                                                    *)
(***************************************************************************)
Absent == "<absent>"
Null == "<null>"
FieldNames == {"id", "name", "industry", "sector"}

GarbageText == [kind |-> "garbage", recs |-> << >>]

\* JSON.parse(text): threw on a text that is no JSON
JSONparse(text) ==
    IF text.kind = "array" THEN [threw |-> FALSE, value |-> text.recs]
    ELSE [threw |-> TRUE, value |-> << >>]

\* JSON.stringify(companies): a property whose value is undefined is left out,
\* which is what Absent stands for
JSONstringify(companies) == [kind |-> "array", recs |-> companies]

\* -------------------------------------------------- migrationStrategies.js

\* !companiesJson: the key is absent or holds the empty string
NoCompaniesJson(store) ==
    ~HasItem(store, COMPANIES_KEY) \/ store[COMPANIES_KEY].kind = "empty"

\* mutant of addField: a collection that does not parse is passed over
addField_ignoresUnparsable(store, fieldName, defaultValue) ==
    IF NoCompaniesJson(store) THEN [threw |-> FALSE, store |-> store, updated |-> 0]
    ELSE LET parsed == JSONparse(store[COMPANIES_KEY])
         IN  IF parsed.threw THEN [threw |-> FALSE, store |-> store, updated |-> 0]
             ELSE LET updatedCompanies ==
                          [i \in 1..Len(parsed.value) |->
                              [parsed.value[i] EXCEPT ![fieldName] =
                                  IF @ \in {Absent, Null} THEN defaultValue ELSE @]]
                  IN  [threw |-> FALSE,
                       store |-> SetItem(store, COMPANIES_KEY, JSONstringify(updatedCompanies)),
                       updated |-> Len(updatedCompanies)]

\* mutant of addField: the updated records are written after the stored ones instead
\* of in their place
addField_appends(store, fieldName, defaultValue) ==
    IF NoCompaniesJson(store) THEN [threw |-> FALSE, store |-> store, updated |-> 0]
    ELSE LET parsed == JSONparse(store[COMPANIES_KEY])
         IN  IF parsed.threw THEN [threw |-> TRUE, store |-> store, updated |-> 0]
             ELSE LET updatedCompanies ==
                          [i \in 1..Len(parsed.value) |->
                              [parsed.value[i] EXCEPT ![fieldName] =
                                  IF @ \in {Absent, Null} THEN defaultValue ELSE @]]
                  IN  [threw |-> FALSE,
                       store |-> SetItem(store, COMPANIES_KEY,
                                         JSONstringify(parsed.value \o updatedCompanies)),
                       updated |-> Len(updatedCompanies)]

\* mutant of addField: the default overwrites the field in every record
addField_overwrites(store, fieldName, defaultValue) ==
    IF NoCompaniesJson(store) THEN [threw |-> FALSE, store |-> store, updated |-> 0]
    ELSE LET parsed == JSONparse(store[COMPANIES_KEY])
         IN  IF parsed.threw THEN [threw |-> TRUE, store |-> store, updated |-> 0]
             ELSE LET updatedCompanies ==
                          [i \in 1..Len(parsed.value) |->
                              [parsed.value[i] EXCEPT ![fieldName] = defaultValue]]
                  IN  [threw |-> FALSE,
                       store |-> SetItem(store, COMPANIES_KEY, JSONstringify(updatedCompanies)),
                       updated |-> Len(updatedCompanies)]

\* companyMigrations.addField(fieldName, defaultValue, logger): the store afterwards,
\* whether it threw, and the count it returns.  company[fieldName] ?? defaultValue
\* takes the default where the field is undefined or null.
addField(store, fieldName, defaultValue) ==
    IF NoCompaniesJson(store) THEN [threw |-> FALSE, store |-> store, updated |-> 0]
    ELSE LET parsed == JSONparse(store[COMPANIES_KEY])
         IN  IF parsed.threw THEN [threw |-> TRUE, store |-> store, updated |-> 0]
             ELSE LET updatedCompanies ==
                          [i \in 1..Len(parsed.value) |->
                              [parsed.value[i] EXCEPT ![fieldName] =
                                  IF @ \in {Absent, Null} THEN defaultValue ELSE @]]
                  IN  [threw |-> FALSE,
                       store |-> SetItem(store, COMPANIES_KEY, JSONstringify(updatedCompanies)),
                       updated |-> Len(updatedCompanies)]

\* mutant of renameField: the value is moved without the test `oldName in result`
renameField_unconditional(store, oldName, newName) ==
    IF NoCompaniesJson(store) THEN [threw |-> FALSE, store |-> store, updated |-> 0]
    ELSE LET parsed == JSONparse(store[COMPANIES_KEY])
         IN  IF parsed.threw THEN [threw |-> TRUE, store |-> store, updated |-> 0]
             ELSE LET updatedCompanies ==
                          [i \in 1..Len(parsed.value) |->
                              LET company == parsed.value[i]
                              IN  [[company EXCEPT ![newName] = company[oldName]]
                                       EXCEPT ![oldName] = Absent]]
                  IN  [threw |-> FALSE,
                       store |-> SetItem(store, COMPANIES_KEY, JSONstringify(updatedCompanies)),
                       updated |-> Len(updatedCompanies)]

\* companyMigrations.renameField(oldName, newName, logger): where oldName is a
\* property of the record, result[newName] = result[oldName]; delete result[oldName]
renameField(store, oldName, newName) ==
    IF NoCompaniesJson(store) THEN [threw |-> FALSE, store |-> store, updated |-> 0]
    ELSE LET parsed == JSONparse(store[COMPANIES_KEY])
         IN  IF parsed.threw THEN [threw |-> TRUE, store |-> store, updated |-> 0]
             ELSE LET updatedCompanies ==
                          [i \in 1..Len(parsed.value) |->
                              LET company == parsed.value[i]
                              IN  IF company[oldName] # Absent
                                  THEN [[company EXCEPT ![newName] = company[oldName]]
                                            EXCEPT ![oldName] = Absent]
                                  ELSE company]
                  IN  [threw |-> FALSE,
                       store |-> SetItem(store, COMPANIES_KEY, JSONstringify(updatedCompanies)),
                       updated |-> Len(updatedCompanies)]


\* -------------------------- the review cache and the general strategies

\* one key of the UI settings whose name begins like the review cache keys, and the
\* cache keys of two companies (reviewCacheHelpers.getKey)
REVIEWS_TABLE_COLUMN_ORDER == "reviewsTableColumnOrder"
ReviewKeys == {"reviews_1", "reviews_2"}

\* the characters of the keys of the model
Chars_reviews == <<"r", "e", "v", "i", "e", "w", "s">>
KeyChars(key) ==
    CASE key = "reviews_1" -> Chars_reviews \o <<"_", "1">>
      [] key = "reviews_2" -> Chars_reviews \o <<"_", "2">>
      [] key = REVIEWS_TABLE_COLUMN_ORDER ->
            Chars_reviews \o <<"T", "a", "b", "l", "e", "C", "o", "l", "u", "m", "n",
                               "O", "r", "d", "e", "r">>
      [] key = COMPANIES_KEY -> <<"c", "o", "m", "p", "a", "n", "i", "e", "s">>
      [] key = VERSION_STORAGE_KEY ->
            <<"a", "p", "p", "_", "v", "e", "r", "s", "i", "o", "n">>
      [] key = SENTIMENT_CHARTS_ORDER ->
            <<"s", "e", "n", "t", "i", "m", "e", "n", "t", "C", "h", "a", "r", "t", "s",
              "O", "r", "d", "e", "r">>

\* key.startsWith(prefix)
StartsWith(key, prefix) ==
    /\ Len(prefix) <= Len(KeyChars(key))
    /\ SubSeq(KeyChars(key), 1, Len(prefix)) = prefix

\* the prefix "reviews_" of the cache keys
ReviewsPrefix == Chars_reviews \o <<"_">>

(***************************************************************************)
(* The text under a review cache key, by what JSON.parse makes of it:       *)
(* "cache" an object whose reviews property is the array `reviews`,         *)
(* "object" any other JSON value (an object without a reviews array, null), *)
(* "garbage" a text JSON.parse throws on, "empty" the empty string.         *)
(* lastMigrated is Absent or the time transformReviews wrote.               *)
(***************************************************************************)
CacheText(kind, reviews, lastMigrated) ==
    [kind |-> kind, reviews |-> reviews, lastMigrated |-> lastMigrated]
Now == "<now>"

\* mutant of findAllKeys: the keys are found by the prefix "reviews"
RECURSIVE findAllKeys_shortPrefix(_)
findAllKeys_shortPrefix(order) ==
    IF order = << >> THEN << >>
    ELSE (IF StartsWith(Head(order), Chars_reviews) THEN <<Head(order)>> ELSE << >>)
             \o findAllKeys_shortPrefix(Tail(order))

\* the keys of `order`, the order in which localStorage.key(i) lists them, that satisfy
\* key.startsWith("reviews_")
RECURSIVE findAllKeys(_)
findAllKeys(order) ==
    IF order = << >> THEN << >>
    ELSE (IF StartsWith(Head(order), ReviewsPrefix) THEN <<Head(order)>> ELSE << >>)
             \o findAllKeys(Tail(order))

\* clearStorageItems(keys): removeItem for every key
RECURSIVE clearStorageItems(_, _)
clearStorageItems(store, keys) ==
    IF keys = << >> THEN store
    ELSE clearStorageItems(RemoveItem(store, Head(keys)), Tail(keys))

\* reviewMigrations.clearAllCache: reviewCacheHelpers.clearAllCache() removes the keys
\* findAllKeys lists and returns how many they are
clearAllCache(store, order) ==
    [threw |-> FALSE,
     store |-> clearStorageItems(store, findAllKeys(order)),
     clearedCount |-> Len(findAllKeys(order))]

\* companyMigrations.clearAll: removeItem(COMPANIES); return {cleared: true}
clearAll(store) ==
    [threw |-> FALSE, store |-> RemoveItem(store, COMPANIES_KEY),
     cleared |-> [type |-> "boolean", value |-> 1]]

\* transformer(review): throws on the reviews of throwsOn, otherwise marks the review
Transformed(review) == [review EXCEPT !.migrated = "true"]

\* the loop of transformReviews over the keys still to visit: acc holds the store and
\* the two counters
RECURSIVE TransformEntries(_, _, _)
TransformEntries(acc, keys, throwsOn) ==
    IF keys = << >> THEN acc
    ELSE LET key == Head(keys)
             cacheData == acc.store[key]
         IN  IF cacheData.kind = "empty"
             THEN TransformEntries(acc, Tail(keys), throwsOn)
             ELSE IF cacheData.kind = "garbage"
             THEN TransformEntries([acc EXCEPT !.failed = @ + 1], Tail(keys), throwsOn)
             ELSE IF cacheData.kind = "object"
             THEN TransformEntries(acc, Tail(keys), throwsOn)
             ELSE IF \E i \in 1..Len(cacheData.reviews) : cacheData.reviews[i].id \in throwsOn
             THEN TransformEntries([acc EXCEPT !.failed = @ + 1], Tail(keys), throwsOn)
             ELSE TransformEntries(
                      [acc EXCEPT
                          !.store = SetItem(@, key,
                              CacheText("cache",
                                        [i \in 1..Len(cacheData.reviews) |->
                                            Transformed(cacheData.reviews[i])],
                                        Now)),
                          !.updated = @ + 1],
                      Tail(keys), throwsOn)

\* reviewMigrations.transformReviews(transformer, logger)
transformReviews(store, order, throwsOn) ==
    LET cacheKeys == findAllKeys(order)
        done == TransformEntries([store |-> store, updated |-> 0, failed |-> 0],
                                 cacheKeys, throwsOn)
    IN  [threw |-> FALSE, store |-> done.store, processed |-> Len(cacheKeys),
         updated |-> done.updated, failed |-> done.failed]

\* the first loop of forEachMatchingKey: pattern.test(key) for the keys in order.
\* pattern is /^prefix/ with or without the g flag; with it, test starts at
\* pattern.lastIndex, which a match sets to the end of the match and a failure to 0
RECURSIVE MatchingKeys(_, _, _)
MatchingKeys(order, pattern, lastIndex) ==
    IF order = << >> THEN << >>
    ELSE LET matches == lastIndex = 0 /\ StartsWith(Head(order), pattern.prefix)
             next == IF pattern.global /\ matches THEN Len(pattern.prefix) ELSE 0
         IN  (IF matches THEN <<Head(order)>> ELSE << >>)
                 \o MatchingKeys(Tail(order), pattern, next)

\* generalMigrations.forEachMatchingKey(pattern, handler, logger); the handler throws
\* on the keys of failsOn and returns on the others; handled lists its invocations
forEachMatchingKey(store, order, pattern, failsOn) ==
    LET keys == MatchingKeys(order, pattern, 0)
        failedKeys == {i \in 1..Len(keys) : keys[i] \in failsOn}
    IN  [threw |-> FALSE, store |-> store, handled |-> keys,
         processed |-> Len(keys),
         succeeded |-> Len(keys) - Cardinality(failedKeys),
         failed |-> Cardinality(failedKeys)]

\* mutant of clearAllStorage: clear() without restoring the preserved keys
clearAllStorage_noRestore(store, exceptKeys) ==
    [threw |-> FALSE,
     store |-> << >>,
     cleared |-> Cardinality(DOMAIN store),
     preserved |-> Cardinality(exceptKeys)]

\* generalMigrations.clearAllStorage(exceptKeys, logger): clear(), then setItem for
\* the keys of exceptKeys that held a value
clearAllStorage(store, exceptKeys) ==
    [threw |-> FALSE,
     store |-> [k \in (DOMAIN store) \cap exceptKeys |-> store[k]],
     cleared |-> Cardinality(DOMAIN store),
     preserved |-> Cardinality(exceptKeys)]

\* ------------------------------------------------------------ migrations.js

(***************************************************************************)
(* A registered procedure is a function made by createMigration whose       *)
(* migrate calls one strategy on the companies collection; kind "none"      *)
(* stands for a version without an entry in the migrations registry.        *)
(***************************************************************************)
NoProcedure == [kind |-> "none", field |-> "", arg |-> ""]
AddFieldProcedure(fieldName, defaultValue) ==
    [kind |-> "addField", field |-> fieldName, arg |-> defaultValue]
RenameFieldProcedure(oldName, newName) ==
    [kind |-> "renameField", field |-> oldName, arg |-> newName]

\* the `affects` every procedure of the model declares
Affects == {COMPANIES_KEY}

\* the strategy the migrate function of procedure proc calls, applied to the store
RunStrategy(store, proc) ==
    IF proc.kind = "addField" THEN addField(store, proc.field, proc.arg)
    ELSE renameField(store, proc.field, proc.arg)

(***************************************************************************)
(* One invocation migrationFn(storedVersion, version) of a registered       *)
(* procedure.  fault is what the invocation meets by itself:                *)
(*   "none"   migrate runs its strategy;                                    *)
(*   "fails"  migrate throws (or returns success: false) before it touches   *)
(*            the store: createMigration's catch turns it into a result      *)
(*            with success = false;                                          *)
(*   "throws" the registered function itself rejects (a procedure that is    *)
(*            not wrapped by createMigration).                               *)
(* A strategy that throws (unparsable collection) is caught the same way.   *)
(***************************************************************************)
\* mutant of createMigration: a successful result does not carry `affects`
createMigration_noAffects(store, proc, fault) ==
    IF fault = "throws" THEN [threw |-> TRUE, success |-> FALSE, store |-> store,
                              affectedKeys |-> {}, hasError |-> TRUE]
    ELSE IF fault = "fails" THEN [threw |-> FALSE, success |-> FALSE, store |-> store,
                                  affectedKeys |-> Affects, hasError |-> TRUE]
    ELSE LET r == RunStrategy(store, proc)
         IN  [threw |-> FALSE, success |-> ~r.threw, store |-> r.store,
              affectedKeys |-> IF r.threw THEN Affects ELSE {}, hasError |-> r.threw]

createMigration(store, proc, fault) ==
    IF fault = "throws" THEN [threw |-> TRUE, success |-> FALSE, store |-> store,
                              affectedKeys |-> {}, hasError |-> TRUE]
    ELSE IF fault = "fails" THEN [threw |-> FALSE, success |-> FALSE, store |-> store,
                                  affectedKeys |-> Affects, hasError |-> TRUE]
    ELSE LET r == RunStrategy(store, proc)
         IN  [threw |-> FALSE, success |-> ~r.threw, store |-> r.store,
              affectedKeys |-> Affects, hasError |-> r.threw]

\* what the migrate function of a procedure does: it throws, or it returns an object,
\* which may have properties named success and affectedKeys of its own
Returned(hasSuccess, success, hasAffectedKeys, affectedKeys) ==
    [threw |-> FALSE, hasSuccess |-> hasSuccess, success |-> success,
     hasAffectedKeys |-> hasAffectedKeys, affectedKeys |-> affectedKeys]
Thrown == [threw |-> TRUE, hasSuccess |-> FALSE, success |-> FALSE,
           hasAffectedKeys |-> FALSE, affectedKeys |-> {}]

\* the value of the function createMigration({affects, migrate}) returns, by what
\* migrate did: {success: true, affectedKeys: affects, ...result}, where a property of
\* result replaces the one written before it, or the object of the catch
MigrationFnResult(affects, outcome) ==
    IF outcome.threw
    THEN [success |-> FALSE, affectedKeys |-> affects, hasError |-> TRUE]
    ELSE [success |-> IF outcome.hasSuccess THEN outcome.success ELSE TRUE,
          affectedKeys |-> IF outcome.hasAffectedKeys THEN outcome.affectedKeys
                           ELSE affects,
          hasError |-> FALSE]

\* checkMigrationNeeded(storedVersion): the caller has a stored version that parses
checkMigrationNeeded(app, storedVersion) ==
    IF storedVersion = << >> THEN FALSE
    ELSE compareVersions(storedVersion, app).value # 0

\* the values executeMigrations returns
NoMigrationNeededResult ==
    [success |-> TRUE, message |-> "No migration needed", hasResults |-> FALSE,
     affectedKeys |-> {}, results |-> << >>, hasError |-> FALSE]
NoMigrationsRequiredResult ==
    [success |-> TRUE, message |-> "No migrations required", hasResults |-> FALSE,
     affectedKeys |-> {}, results |-> << >>, hasError |-> FALSE]
PathFailedResult ==
    [success |-> FALSE, message |-> "Migration failed", hasResults |-> FALSE,
     affectedKeys |-> {}, results |-> << >>, hasError |-> TRUE]
StepFailedResult(affectedKeys, results) ==
    [success |-> FALSE, message |-> "Migration failed for version", hasResults |-> TRUE,
     affectedKeys |-> affectedKeys, results |-> results, hasError |-> TRUE]
MigratedResult(affectedKeys, results) ==
    [success |-> TRUE, message |-> "Successfully migrated", hasResults |-> TRUE,
     affectedKeys |-> affectedKeys, results |-> results, hasError |-> FALSE]

\* -------------------------------------------------------- versionService.js

\* mutant of saveCurrentVersion: the version is saved under another key
saveCurrentVersion_wrongKey(store, app) == SetItem(store, "version", app)

\* saveCurrentVersion(): localStorage.setItem(VERSION_STORAGE_KEY, APP_VERSION)
saveCurrentVersion(store, app) == SetItem(store, VERSION_STORAGE_KEY, app)

\* checkVersionStatus(): threw when the stored marker does not parse (compareVersions
\* throws); on first run the object has no isNewer / isOlder (undefined, here FALSE)
checkVersionStatus(store, app) ==
    IF ~HasItem(store, VERSION_STORAGE_KEY) \/ store[VERSION_STORAGE_KEY] = << >>
    THEN [threw |-> FALSE, firstRun |-> TRUE, updated |-> FALSE, hasFrom |-> FALSE,
          fromVersion |-> << >>, toVersion |-> app, isNewer |-> FALSE, isOlder |-> FALSE]
    ELSE LET storedVersion == store[VERSION_STORAGE_KEY]
             versionCompare == compareVersions(storedVersion, app)
         IN  [threw |-> versionCompare.threw, firstRun |-> FALSE,
              updated |-> versionCompare.value # 0, hasFrom |-> TRUE,
              fromVersion |-> storedVersion, toVersion |-> app,
              isNewer |-> versionCompare.value < 0,
              isOlder |-> versionCompare.value > 0]


\* migrations[version]: NoProcedure where the registry has no such property
MigrationFn(registry, version) ==
    IF version \in DOMAIN registry THEN registry[version] ELSE NoProcedure

(***************************************************************************)
(* The callers of initializeVersioning in App.jsx: the effect that runs     *)
(* once when the application mounts, and the re-check button.               *)
(***************************************************************************)
Callers == {"startup", "recheck"}

NoStatus ==
    [threw |-> FALSE, firstRun |-> FALSE, updated |-> FALSE, hasFrom |-> FALSE,
     fromVersion |-> << >>, toVersion |-> << >>, isNewer |-> FALSE, isOlder |-> FALSE]

NoPending ==
    [threw |-> FALSE, success |-> FALSE, affectedKeys |-> {}, hasError |-> FALSE]

\* an invocation that has not started.  invoked (the versions whose procedure this
\* invocation has called, in call order), storeAtCall (the store when it started),
\* markerWrites (its calls of saveCurrentVersion) and callNo (its number among the
\* invocations of the session) record what the invocation did.
IdleCall ==
    [pc |-> "idle", status |-> NoStatus, migrationNeeded |-> FALSE,
     migrationPath |-> << >>, idx |-> 0, results |-> << >>, affectedKeys |-> {},
     pending |-> NoPending, migrationResult |-> NoMigrationNeededResult,
     invoked |-> << >>, arguments |-> << >>, storeAtCall |-> << >>,
     markerWrites |-> 0, callNo |-> 0]

Quiescent == {"idle", "returned", "rejected"}

\* mutant of MayCall: the button starts an invocation while another one is awaiting
MayCall_whileAwaiting(c) ==
    /\ nCalls < MaxCalls
    /\ calls[c].pc \in Quiescent
    /\ c = "startup" => calls[c].pc = "idle"
    /\ c = "recheck" => calls["startup"].pc # "idle"

\* App.jsx calls initializeVersioning once at mount and then from the button;
\* the invocations of one execution context do not overlap
MayCall(c) ==
    /\ nCalls < MaxCalls
    /\ \A d \in Callers : calls[d].pc \in Quiescent
    /\ c = "startup" => calls[c].pc = "idle"
    /\ c = "recheck" => calls["startup"].pc # "idle"

\* initializeVersioning, from its call to its first await: checkVersionStatus, and
\* for a first run, an unchanged version or a downgrade the rest of the function
\* (saveCurrentVersion when firstRun or updated; return)
initializeVersioning(c) ==
    /\ MayCall(c)
    /\ nCalls' = nCalls + 1
    /\ LET status == checkVersionStatus(localStorage, APP_VERSION)
           started == [IdleCall EXCEPT !.status = status, !.storeAtCall = localStorage,
                                      !.callNo = nCalls + 1]
       IN  IF status.threw
           THEN /\ calls' = [calls EXCEPT ![c] = [started EXCEPT !.pc = "rejected"]]
                /\ UNCHANGED localStorage
           ELSE IF status.updated /\ status.isNewer
           THEN /\ calls' = [calls EXCEPT ![c] =
                                [started EXCEPT !.pc = "checkMigrationNeeded"]]
                /\ UNCHANGED localStorage
           ELSE IF status.firstRun \/ status.updated
           THEN /\ localStorage' = saveCurrentVersion(localStorage, APP_VERSION)
                /\ calls' = [calls EXCEPT ![c] =
                                [started EXCEPT !.pc = "returned", !.markerWrites = 1]]
           ELSE /\ calls' = [calls EXCEPT ![c] = [started EXCEPT !.pc = "returned"]]
                /\ UNCHANGED localStorage
    /\ UNCHANGED <<build, probe, faults>>

\* mutant of BeforeLoop: an empty path is reported as a failure
BeforeLoop_emptyPathFails(cur, storedVersion, resolved) ==
    IF storedVersion = << >> \/ storedVersion = APP_VERSION
    THEN [cur EXCEPT !.pc = "awaitExecute", !.migrationNeeded = TRUE,
                     !.migrationResult = NoMigrationNeededResult]
    ELSE IF resolved.threw \/ Len(resolved.path) = 0
    THEN [cur EXCEPT !.pc = "awaitExecute", !.migrationNeeded = TRUE,
                     !.migrationResult = PathFailedResult]
    ELSE [cur EXCEPT !.pc = "loop", !.migrationNeeded = TRUE,
                     !.migrationPath = resolved.path, !.idx = 1]

\* executeMigrations(storedVersion) up to its loop, in the invocation cur, resolved
\* being the value of getMigrationPath(storedVersion, APP_VERSION): the early return,
\* a path that could not be computed (outer catch), the empty path, the start of the loop
BeforeLoop(cur, storedVersion, resolved) ==
    IF storedVersion = << >> \/ storedVersion = APP_VERSION
    THEN [cur EXCEPT !.pc = "awaitExecute", !.migrationNeeded = TRUE,
                     !.migrationResult = NoMigrationNeededResult]
    ELSE IF resolved.threw
    THEN [cur EXCEPT !.pc = "awaitExecute", !.migrationNeeded = TRUE,
                     !.migrationResult = PathFailedResult]
    ELSE IF Len(resolved.path) = 0
    THEN [cur EXCEPT !.pc = "awaitExecute", !.migrationNeeded = TRUE,
                     !.migrationResult = NoMigrationsRequiredResult]
    ELSE [cur EXCEPT !.pc = "loop", !.migrationNeeded = TRUE,
                     !.migrationPath = resolved.path, !.idx = 1]

\* after `await checkMigrationNeeded`: without a migration needed the rest of
\* initializeVersioning (lines 106-115), otherwise executeMigrations(status.fromVersion)
\* up to its loop
executeMigrations(c) ==
    /\ calls[c].pc = "checkMigrationNeeded"
    /\ IF ~checkMigrationNeeded(APP_VERSION, calls[c].status.fromVersion)
       THEN /\ localStorage' = saveCurrentVersion(localStorage, APP_VERSION)
            /\ calls' = [calls EXCEPT ![c].pc = "returned", ![c].markerWrites = 1]
       ELSE /\ UNCHANGED localStorage
            /\ calls' = [calls EXCEPT ![c] =
                 BeforeLoop(calls[c], calls[c].status.fromVersion,
                            getMigrationPath(VERSION_HISTORY, calls[c].status.fromVersion,
                                             APP_VERSION))]
    /\ UNCHANGED <<build, probe, nCalls, faults>>

\* what an invocation of a procedure can meet by itself
Faults == IF faults < MaxFaults THEN {"none", "fails", "throws"} ELSE {"none"}

\* mutant of InvokeStep: a step is called with the version the step before it reached
InvokeStep_fromPrevious(c) ==
    /\ calls[c].pc = "loop"
    /\ calls[c].idx <= Len(calls[c].migrationPath)
    /\ LET cur == calls[c]
           version == cur.migrationPath[cur.idx].version
           migrationFn == MigrationFn(migrations, version)
       IN  /\ migrationFn.kind # "none"
           /\ \E fault \in Faults :
                LET r == createMigration(localStorage, migrationFn, fault)
                IN  /\ localStorage' = r.store
                    /\ faults' = IF fault = "none" THEN faults ELSE faults + 1
                    /\ calls' = [calls EXCEPT ![c] =
                         [cur EXCEPT !.pc = "awaitStep",
                                     !.invoked = Append(@, version),
                                     !.arguments =
                                         Append(@, [fromVersion |->
                                                        IF cur.invoked = << >>
                                                        THEN cur.status.fromVersion
                                                        ELSE cur.invoked[Len(cur.invoked)],
                                                    toVersion |-> version]),
                                     !.pending = [threw |-> r.threw, success |-> r.success,
                                                  affectedKeys |-> r.affectedKeys,
                                                  hasError |-> r.hasError]]]
    /\ UNCHANGED <<build, probe, nCalls>>

\* loop body, registered procedure: result = await migrationFn(storedVersion, version).
\* The procedure runs when it is called; its result is handled in CompleteStep.
InvokeStep(c) ==
    /\ calls[c].pc = "loop"
    /\ calls[c].idx <= Len(calls[c].migrationPath)
    /\ LET cur == calls[c]
           version == cur.migrationPath[cur.idx].version
           migrationFn == MigrationFn(migrations, version)
       IN  /\ migrationFn.kind # "none"
           /\ \E fault \in Faults :
                LET r == createMigration(localStorage, migrationFn, fault)
                IN  /\ localStorage' = r.store
                    /\ faults' = IF fault = "none" THEN faults ELSE faults + 1
                    /\ calls' = [calls EXCEPT ![c] =
                         [cur EXCEPT !.pc = "awaitStep",
                                     !.invoked = Append(@, version),
                                     !.arguments =
                                         Append(@, [fromVersion |-> cur.status.fromVersion,
                                                    toVersion |-> version]),
                                     !.pending = [threw |-> r.threw, success |-> r.success,
                                                  affectedKeys |-> r.affectedKeys,
                                                  hasError |-> r.hasError]]]
    /\ UNCHANGED <<build, probe, nCalls>>

\* mutant of WarnNoMigrationFunction: a version without a procedure fails the run
WarnNoMigrationFunction_fails(c) ==
    /\ calls[c].pc = "loop"
    /\ calls[c].idx <= Len(calls[c].migrationPath)
    /\ MigrationFn(migrations, calls[c].migrationPath[calls[c].idx].version).kind = "none"
    /\ calls' = [calls EXCEPT ![c] =
                    [@ EXCEPT !.pc = "awaitExecute",
                              !.migrationResult = StepFailedResult(calls[c].affectedKeys,
                                                                  calls[c].results)]]
    /\ UNCHANGED <<build, probe, localStorage, nCalls, faults>>

\* loop body, no procedure registered for the version: logger.warn, next version
WarnNoMigrationFunction(c) ==
    /\ calls[c].pc = "loop"
    /\ calls[c].idx <= Len(calls[c].migrationPath)
    /\ MigrationFn(migrations, calls[c].migrationPath[calls[c].idx].version).kind = "none"
    /\ calls' = [calls EXCEPT ![c].idx = @ + 1]
    /\ UNCHANGED <<build, probe, localStorage, nCalls, faults>>

\* mutant of CompleteStep: a rejection is caught and the loop goes on
CompleteStep_skipsRejection(c) ==
    /\ calls[c].pc = "awaitStep"
    /\ LET cur == calls[c]
           version == cur.migrationPath[cur.idx].version
           result == cur.pending
           affectedKeys == cur.affectedKeys \cup result.affectedKeys
           results == Append(cur.results,
                             [version |-> version, success |-> result.success,
                              affectedKeys |-> result.affectedKeys])
       IN  calls' = [calls EXCEPT ![c] =
             IF result.threw
             THEN [cur EXCEPT !.pc = "loop", !.pending = NoPending, !.idx = @ + 1]
             ELSE IF ~result.success
             THEN [cur EXCEPT !.pc = "awaitExecute", !.pending = NoPending,
                     !.results = results, !.affectedKeys = affectedKeys,
                     !.migrationResult = StepFailedResult(affectedKeys, results)]
             ELSE [cur EXCEPT !.pc = "loop", !.pending = NoPending, !.idx = @ + 1,
                     !.results = results, !.affectedKeys = affectedKeys]]
    /\ UNCHANGED <<build, probe, localStorage, nCalls, faults>>

\* mutant of CompleteStep: a result with success = false does not end the run
CompleteStep_continues(c) ==
    /\ calls[c].pc = "awaitStep"
    /\ LET cur == calls[c]
           version == cur.migrationPath[cur.idx].version
           result == cur.pending
           affectedKeys == cur.affectedKeys \cup result.affectedKeys
           results == Append(cur.results,
                             [version |-> version, success |-> result.success,
                              affectedKeys |-> result.affectedKeys])
       IN  calls' = [calls EXCEPT ![c] =
             IF result.threw
             THEN [cur EXCEPT !.pc = "awaitExecute", !.pending = NoPending,
                     !.migrationResult = StepFailedResult(cur.affectedKeys, cur.results)]
             ELSE [cur EXCEPT !.pc = "loop", !.pending = NoPending, !.idx = @ + 1,
                     !.results = results, !.affectedKeys = affectedKeys]]
    /\ UNCHANGED <<build, probe, localStorage, nCalls, faults>>

\* mutant of CompleteStep: the marker is advanced to the version of every step that
\* succeeded
CompleteStep_savesProgress(c) ==
    /\ calls[c].pc = "awaitStep"
    /\ LET cur == calls[c]
           version == cur.migrationPath[cur.idx].version
           result == cur.pending
           affectedKeys == cur.affectedKeys \cup result.affectedKeys
           results == Append(cur.results,
                             [version |-> version, success |-> result.success,
                              affectedKeys |-> result.affectedKeys])
       IN  /\ localStorage' = IF ~result.threw /\ result.success
                              THEN saveCurrentVersion(localStorage, version)
                              ELSE localStorage
           /\ calls' = [calls EXCEPT ![c] =
                 IF result.threw
                 THEN [cur EXCEPT !.pc = "awaitExecute", !.pending = NoPending,
                         !.migrationResult = StepFailedResult(cur.affectedKeys, cur.results)]
                 ELSE IF ~result.success
                 THEN [cur EXCEPT !.pc = "awaitExecute", !.pending = NoPending,
                         !.results = results, !.affectedKeys = affectedKeys,
                         !.migrationResult = StepFailedResult(affectedKeys, results)]
                 ELSE [cur EXCEPT !.pc = "loop", !.pending = NoPending, !.idx = @ + 1,
                         !.results = results, !.affectedKeys = affectedKeys]]
    /\ UNCHANGED <<build, probe, nCalls, faults>>

\* the awaited procedure settles: a rejection is caught and ends the run without a
\* result entry; a result is recorded, and one with success = false ends the run
CompleteStep(c) ==
    /\ calls[c].pc = "awaitStep"
    /\ LET cur == calls[c]
           version == cur.migrationPath[cur.idx].version
           result == cur.pending
           affectedKeys == cur.affectedKeys \cup result.affectedKeys
           results == Append(cur.results,
                             [version |-> version, success |-> result.success,
                              affectedKeys |-> result.affectedKeys])
       IN  calls' = [calls EXCEPT ![c] =
             IF result.threw
             THEN [cur EXCEPT !.pc = "awaitExecute", !.pending = NoPending,
                     !.migrationResult = StepFailedResult(cur.affectedKeys, cur.results)]
             ELSE IF ~result.success
             THEN [cur EXCEPT !.pc = "awaitExecute", !.pending = NoPending,
                     !.results = results, !.affectedKeys = affectedKeys,
                     !.migrationResult = StepFailedResult(affectedKeys, results)]
             ELSE [cur EXCEPT !.pc = "loop", !.pending = NoPending, !.idx = @ + 1,
                     !.results = results, !.affectedKeys = affectedKeys]]
    /\ UNCHANGED <<build, probe, localStorage, nCalls, faults>>

\* the loop is over: migrationLogger.complete, return success
CompleteRun(c) ==
    /\ calls[c].pc = "loop"
    /\ calls[c].idx > Len(calls[c].migrationPath)
    /\ calls' = [calls EXCEPT ![c] =
                    [@ EXCEPT !.pc = "awaitExecute",
                              !.migrationResult = MigratedResult(calls[c].affectedKeys,
                                                                calls[c].results)]]
    /\ UNCHANGED <<build, probe, localStorage, nCalls, faults>>

\* mutant of ReturnStatus: the version is saved whatever the run reported
ReturnStatus_alwaysSaves(c) ==
    /\ calls[c].pc = "awaitExecute"
    /\ localStorage' = saveCurrentVersion(localStorage, APP_VERSION)
    /\ calls' = [calls EXCEPT ![c] = [@ EXCEPT !.pc = "returned", !.markerWrites = @ + 1]]
    /\ UNCHANGED <<build, probe, nCalls, faults>>

\* initializeVersioning after `await executeMigrations`: saveCurrentVersion only when
\* migrationResult.success; return {...status, migrationNeeded, migrationResult}
ReturnStatus(c) ==
    /\ calls[c].pc = "awaitExecute"
    /\ IF calls[c].migrationResult.success
       THEN /\ localStorage' = saveCurrentVersion(localStorage, APP_VERSION)
            /\ calls' = [calls EXCEPT ![c] =
                            [@ EXCEPT !.pc = "returned", !.markerWrites = @ + 1]]
       ELSE /\ UNCHANGED localStorage
            /\ calls' = [calls EXCEPT ![c].pc = "returned"]
    /\ UNCHANGED <<build, probe, nCalls, faults>>


\* ------------------------------------------------------------------ builds

HistoryEntry(version, requiresMigration) ==
    [version |-> version, requiresMigration |-> requiresMigration]

\* the build of the repository: version.js lines 14 and 26-74, an empty registry
RepositoryBuild ==
    [app |-> V_1_0_0_alpha,
     history |-> <<HistoryEntry(V_1_0_0_alpha, FALSE)>>,
     migrations |-> << >>]

\* later releases, added to VERSION_HISTORY as the migration guide describes
LaterVersions == {V_1_1_0, V_1_2_0, V_1_10_0}

\* a history written in the order `order`, flags[v] = requiresMigration of v; the
\* first release never requires migration (version.js line 29)
History(order, flags) ==
    [i \in 1..Len(order) |->
        HistoryEntry(order[i], order[i] # V_1_0_0_alpha /\ flags[order[i]])]

\* at most one later release that requires no migration
MigrationFlags ==
    { flags \in [LaterVersions -> BOOLEAN] :
        Cardinality({v \in LaterVersions : ~flags[v]}) <= 1 }

Procedures ==
    { AddFieldProcedure("industry", "Technology"),
      RenameFieldProcedure("industry", "sector") }

\* the registries over the versions of `versions`
Registries(versions) == UNION { [D -> Procedures] : D \in SUBSET versions }

\* builds of the newest release, the history not written in ascending order
NewestBuilds ==
    { [app |-> V_1_10_0,
       history |-> History(<<V_1_10_0, V_1_0_0_alpha, V_1_2_0, V_1_1_0>>, flags),
       migrations |-> registry] :
      flags \in MigrationFlags, registry \in Registries(LaterVersions) }

\* builds of release 1.2.0 whose history already lists the release after it
EarlierBuilds ==
    { [app |-> V_1_2_0,
       history |-> History(<<V_1_0_0_alpha, V_1_1_0, V_1_2_0, V_1_10_0>>, flags),
       migrations |-> [v \in (DOMAIN registry) \cup {V_1_10_0} |->
                          IF v = V_1_10_0 THEN AddFieldProcedure("industry", "Technology")
                          ELSE registry[v]]] :
      flags \in {f \in MigrationFlags : f[V_1_10_0]},
      registry \in Registries({V_1_1_0, V_1_2_0}) }

\* builds whose history the compiled-in version is missing from
UnlistedBuilds ==
    { [app |-> V_1_10_0,
       history |-> History(<<V_1_0_0_alpha, V_1_1_0, V_1_2_0>>,
                           [v \in LaterVersions |-> TRUE]),
       migrations |-> registry] :
      registry \in Registries({V_1_1_0}) }

\* the build of the guide's example workflow: release 1.1.0 after 1.0.0, with the
\* procedure that adds the industry field
GuideBuild ==
    [app |-> V_1_1_0,
     history |-> <<HistoryEntry(V_1_0_0, FALSE), HistoryEntry(V_1_1_0, TRUE)>>,
     migrations |-> [v \in {V_1_1_0} |-> AddFieldProcedure("industry", "Technology")]]

Builds ==
    {RepositoryBuild, GuideBuild} \cup NewestBuilds \cup EarlierBuilds \cup UnlistedBuilds

\* ------------------------------------------------------------------ stores

\* what the marker key can hold when the application starts: a version an earlier
\* build saved, or any other string
StoredMarkers ==
    { V_1_0_0_alpha, V_1_0_0_beta, V_1_1_0, V_1_2_0, V_1_10_0, V_2_0_0,
      S_empty, S_malformed }

\* the company {id: 1, name: "Acme"} with the given industry and sector
Company(industry, sector) ==
    [f \in FieldNames |->
        CASE f = "id" -> "1"
          [] f = "name" -> "Acme"
          [] f = "industry" -> industry
          [] f = "sector" -> sector]

CompanyRecords == { Company("Media", Absent), Company(Null, "Media") }

CompanyArrays == UNION { [1..n -> CompanyRecords] : n \in 0..MaxCompanies }

CompaniesTexts == {GarbageText} \cup { JSONstringify(a) : a \in CompanyArrays }

\* the store release 1.0.0 left: its marker and the company {id: 1, name: "Acme"}
GuideStore ==
    [k \in {SENTIMENT_CHARTS_ORDER, VERSION_STORAGE_KEY, COMPANIES_KEY} |->
        IF k = VERSION_STORAGE_KEY THEN V_1_0_0
        ELSE IF k = COMPANIES_KEY THEN JSONstringify(<<Company(Absent, Absent)>>)
        ELSE <<"[", "]">>]

Stores ==
    { [k \in {SENTIMENT_CHARTS_ORDER} \cup markerKey \cup companiesKey |->
          IF k = VERSION_STORAGE_KEY THEN marker
          ELSE IF k = COMPANIES_KEY THEN text
          ELSE <<"[", "]">>] :
      markerKey \in {{}, {VERSION_STORAGE_KEY}}, marker \in StoredMarkers,
      companiesKey \in {{}, {COMPANIES_KEY}}, text \in CompaniesTexts }
        \cup {GuideStore}

NoProbe ==
    [op |-> "none", fromVersion |-> << >>, toVersion |-> << >>,
     resolved |-> [threw |-> FALSE, path |-> << >>]]

Init ==
    /\ \E b \in Builds :
         /\ APP_VERSION = b.app
         /\ VERSION_HISTORY = b.history
         /\ migrations = b.migrations
    /\ localStorage \in Stores
    /\ calls = [c \in Callers |-> IdleCall]
    /\ nCalls = 0
    /\ faults = 0
    /\ probe = NoProbe

Next ==
    \E c \in Callers :
        \/ initializeVersioning(c)
        \/ executeMigrations(c)
        \/ InvokeStep(c)
        \/ WarnNoMigrationFunction(c)
        \/ CompleteStep(c)
        \/ CompleteRun(c)
        \/ ReturnStatus(c)

Spec == Init /\ [][Next]_vars

\* ------------------------------------------- getMigrationPath called directly

AllVersions == {V_1_0_0_alpha} \cup LaterVersions

\* the orders in which the entries of a set of versions can be written
Orders(versions) ==
    { order \in [1..Cardinality(versions) -> versions] :
        \A i \in DOMAIN order : \A j \in DOMAIN order : i # j => order[i] # order[j] }

\* every history over one to four of the versions, written in any order, with any
\* requiresMigration flags on the later releases
PathHistories ==
    { History(order, flags) :
        order \in UNION { Orders(versions) : versions \in (SUBSET AllVersions) \ {{}} },
        flags \in [LaterVersions -> BOOLEAN] }

\* the arguments getMigrationPath is called with
PathArguments == AllVersions \cup {V_1_0_0_beta, V_2_0_0, S_malformed}

InitPath ==
    /\ APP_VERSION = V_1_0_0_alpha
    /\ VERSION_HISTORY \in PathHistories
    /\ migrations = << >>
    /\ localStorage = << >>
    /\ calls = [c \in Callers |-> IdleCall]
    /\ nCalls = 0
    /\ faults = 0
    /\ probe = NoProbe

\* a call getMigrationPath(fromVersion, toVersion); the function keeps no state, so
\* a behaviour makes one call
CallGetMigrationPath(fromVersion, toVersion) ==
    /\ probe.op = "none"
    /\ probe' = [op |-> "getMigrationPath", fromVersion |-> fromVersion,
                 toVersion |-> toVersion,
                 resolved |-> getMigrationPath(VERSION_HISTORY, fromVersion, toVersion)]
    /\ UNCHANGED <<build, localStorage, calls, nCalls, faults>>

\* a call needsMigration(fromVersion, toVersion); the entry of toVersion lists in
\* migrateFrom no version, the version it is called with, or every version
CallNeedsMigration ==
    /\ probe.op = "none"
    /\ \E fromVersion \in PathArguments : \E toVersion \in PathArguments :
       \E migrateFrom \in {{}, {fromVersion}, AllVersions} :
          probe' = [op |-> "needsMigration", fromVersion |-> fromVersion,
                    toVersion |-> toVersion, migrateFrom |-> migrateFrom,
                    needed |-> needsMigration(VERSION_HISTORY, migrateFrom,
                                              fromVersion, toVersion)]
    /\ UNCHANGED <<build, localStorage, calls, nCalls, faults>>

NextPath ==
    \/ \E fromVersion \in PathArguments : \E toVersion \in PathArguments :
          CallGetMigrationPath(fromVersion, toVersion)
    \/ CallNeedsMigration

SpecPath == InitPath /\ [][NextPath]_vars


\* ------------------------------- functions over the store called directly

\* the records of a stored collection: the field is absent, null or set, in each of
\* the two fields the procedures of the guide work on
LibraryRecords ==
    { Company(industry, sector) :
        industry \in {Absent, Null, "Media"}, sector \in {Absent, "Media"} }

\* what the companies key can hold: nothing, the empty string, a text that is no
\* JSON, the JSON text of an array of up to MaxRecords records
LibraryTexts ==
    {GarbageText, [kind |-> "empty", recs |-> << >>]}
        \cup { JSONstringify(a) :
                 a \in UNION { [1..n -> LibraryRecords] : n \in 0..MaxRecords } }

LibraryStores ==
    { [k \in markerKey \cup companiesKey |->
          IF k = VERSION_STORAGE_KEY THEN marker ELSE text] :
      markerKey \in {{}, {VERSION_STORAGE_KEY}},
      marker \in {V_1_0_0_alpha, V_1_2_0, S_empty, S_malformed},
      companiesKey \in {{}, {COMPANIES_KEY}}, text \in LibraryTexts }

\* the default values addField is called with: a string, null, undefined
DefaultValues == {"Technology", Null, Absent}

InitStore ==
    /\ APP_VERSION \in {V_1_0_0_alpha, V_1_2_0}
    /\ VERSION_HISTORY = RepositoryBuild.history
    /\ migrations = << >>
    /\ localStorage \in LibraryStores
    /\ calls = [c \in Callers |-> IdleCall]
    /\ nCalls = 0
    /\ faults = 0
    /\ probe = NoProbe

\* what a call of a strategy leaves: the store, and in probe the arguments, the store
\* before the call and what the call returned
StrategyCalled(op, argA, argB, r) ==
    /\ localStorage' = r.store
    /\ probe' = [op |-> op, argA |-> argA, argB |-> argB, before |-> localStorage,
                 threw |-> r.threw, updated |-> r.updated]

\* a call companyMigrations.addField(fieldName, defaultValue, logger)
CallAddField(fieldName, defaultValue) ==
    /\ probe.op = "none"
    /\ StrategyCalled("addField", fieldName, defaultValue,
                      addField(localStorage, fieldName, defaultValue))
    /\ UNCHANGED <<build, calls, nCalls, faults>>

\* a call companyMigrations.renameField(oldName, newName, logger)
CallRenameField(oldName, newName) ==
    /\ probe.op = "none"
    /\ StrategyCalled("renameField", oldName, newName,
                      renameField(localStorage, oldName, newName))
    /\ UNCHANGED <<build, calls, nCalls, faults>>

\* a call checkVersionStatus(): it reads the store (getStoredVersion) and writes nothing
CallCheckVersionStatus ==
    /\ probe.op = "none"
    /\ probe' = [op |-> "checkVersionStatus", before |-> localStorage,
                 status |-> checkVersionStatus(localStorage, APP_VERSION)]
    /\ UNCHANGED <<build, localStorage, calls, nCalls, faults>>

NextStore ==
    \/ \E fieldName \in FieldNames : \E defaultValue \in DefaultValues :
          CallAddField(fieldName, defaultValue)
    \/ \E oldName \in FieldNames : \E newName \in FieldNames :
          CallRenameField(oldName, newName)
    \/ CallCheckVersionStatus

SpecStore == InitStore /\ [][NextStore]_vars

(***************************************************************************)
(* The same program with its scheduling.  A run of executeMigrations that   *)
(* has entered its loop goes on by itself: the loop body is synchronous up  *)
(* to `await migrationFn(...)`, the continuation of the await runs when the *)
(* promise has settled (the microtask queue is drained before the browser   *)
(* handles another event), and every procedure that is invoked settles.     *)
(* Nothing obliges the user to press the button.                            *)
(***************************************************************************)
Continue(c) ==
    \/ InvokeStep(c)
    \/ WarnNoMigrationFunction(c)
    \/ CompleteStep(c)
    \/ CompleteRun(c)

\* the builds of the newest release in which every later release requires a migration
FairBuilds ==
    { b \in NewestBuilds :
        \A i \in 1..Len(b.history) :
            b.history[i].version # V_1_0_0_alpha => b.history[i].requiresMigration }

\* the stores of a first run, of the first release, of a release the history does not
\* list, of an intermediate release, of a later release and of an unreadable marker
FairStores ==
    { store \in Stores :
        /\ HasItem(store, VERSION_STORAGE_KEY) =>
              store[VERSION_STORAGE_KEY]
                 \in {V_1_0_0_alpha, V_1_0_0_beta, V_1_2_0, V_2_0_0, S_malformed}
        /\ HasItem(store, COMPANIES_KEY) =>
              store[COMPANIES_KEY]
                 \in {GarbageText, JSONstringify(<<Company("Media", Absent)>>)} }

InitFair ==
    /\ \E b \in FairBuilds :
         /\ APP_VERSION = b.app
         /\ VERSION_HISTORY = b.history
         /\ migrations = b.migrations
    /\ localStorage \in FairStores
    /\ calls = [c \in Callers |-> IdleCall]
    /\ nCalls = 0
    /\ faults = 0
    /\ probe = NoProbe

SpecFair == InitFair /\ [][Next]_vars /\ \A c \in Callers : WF_vars(Continue(c))

(***************************************************************************)
(* The strategies of migrationStrategies and the functions createMigration  *)
(* makes, called on stores that hold the review caches and a UI setting     *)
(* besides the marker and the companies, and the startup of the application *)
(* on the same stores.                                                       *)
(***************************************************************************)
MaxReviews == 1

\* the reviews a cache holds, and the arrays of them
ReviewIds == {"r1", "r2"}
Review(id) == [id |-> id, migrated |-> Absent]
ReviewArrays ==
    UNION { [1..n -> { Review(id) : id \in ReviewIds }] : n \in 0..MaxReviews }

\* the texts under the two cache keys
CacheTexts ==
    { CacheText("cache", reviews, Absent) : reviews \in ReviewArrays }
        \cup { CacheText(kind, << >>, Absent) : kind \in {"object", "garbage", "empty"} }
SecondCacheTexts ==
    { CacheText("cache", <<Review("r2")>>, Absent), CacheText("garbage", << >>, Absent) }

\* the stores: the marker of the first release, a malformed one or none, the
\* companies, the caches of two companies, and the column order of the reviews table
CacheStores ==
    { [k \in markerKey \cup companiesKey \cup firstKey \cup secondKey
                 \cup {REVIEWS_TABLE_COLUMN_ORDER} |->
          CASE k = VERSION_STORAGE_KEY -> marker
            [] k = COMPANIES_KEY -> companies
            [] k = "reviews_1" -> first
            [] k = "reviews_2" -> second
            [] OTHER -> "[\"date\",\"rating\"]"] :
      markerKey \in {{}, {VERSION_STORAGE_KEY}}, marker \in {V_1_0_0, S_malformed},
      companiesKey \in {{}, {COMPANIES_KEY}},
      companies \in {GarbageText, JSONstringify(<<Company("Software", Absent)>>)},
      firstKey \in {{}, {"reviews_1"}}, first \in CacheTexts,
      secondKey \in {{}, {"reviews_2"}}, second \in SecondCacheTexts }

\* the builds of release 1.1.0: it requires a migration or not, and its procedure is
\* registered or not
CacheBuilds ==
    { [app |-> V_1_1_0,
       history |-> <<HistoryEntry(V_1_0_0, FALSE), HistoryEntry(V_1_1_0, flag)>>,
       migrations |-> registry] :
      flag \in BOOLEAN, registry \in Registries({V_1_1_0}) }

InitLibrary ==
    /\ \E b \in CacheBuilds :
          /\ APP_VERSION = b.app
          /\ VERSION_HISTORY = b.history
          /\ migrations = b.migrations
    /\ localStorage \in CacheStores
    /\ calls = [c \in Callers |-> IdleCall]
    /\ nCalls = 0
    /\ faults = 0
    /\ probe = NoProbe

\* the orders in which localStorage.key(i) can list the keys of the store
RECURSIVE KeyOrders(_)
KeyOrders(keys) ==
    IF keys = {} THEN { << >> }
    ELSE UNION { { <<k>> \o order : order \in KeyOrders(keys \ {k}) } : k \in keys }

\* the library is called on the store as it is before the application starts
LibraryIdle == probe.op = "none" /\ nCalls = 0

\* a call companyMigrations.addField("industry", "Technology", logger)
CallLibraryAddField ==
    /\ LibraryIdle
    /\ LET r == addField(localStorage, "industry", "Technology")
       IN  /\ localStorage' = r.store
           /\ probe' = [op |-> "addField", before |-> localStorage, result |-> r]
    /\ UNCHANGED <<build, calls, nCalls, faults>>

\* a call companyMigrations.renameField("industry", "sector", logger)
CallLibraryRenameField ==
    /\ LibraryIdle
    /\ LET r == renameField(localStorage, "industry", "sector")
       IN  /\ localStorage' = r.store
           /\ probe' = [op |-> "renameField", before |-> localStorage, result |-> r]
    /\ UNCHANGED <<build, calls, nCalls, faults>>

\* a call companyMigrations.clearAll(logger)
CallClearAll ==
    /\ LibraryIdle
    /\ LET r == clearAll(localStorage)
       IN  /\ localStorage' = r.store
           /\ probe' = [op |-> "clearAll", before |-> localStorage, result |-> r]
    /\ UNCHANGED <<build, calls, nCalls, faults>>

\* a call reviewMigrations.clearAllCache(logger)
CallClearAllCache ==
    /\ LibraryIdle
    /\ \E order \in KeyOrders(DOMAIN localStorage) :
          LET r == clearAllCache(localStorage, order)
          IN  /\ localStorage' = r.store
              /\ probe' = [op |-> "clearAllCache", before |-> localStorage,
                           result |-> r]
    /\ UNCHANGED <<build, calls, nCalls, faults>>

\* a call reviewMigrations.transformReviews(transformer, logger) with a transformer
\* that throws on the reviews of throwsOn
CallTransformReviews ==
    /\ LibraryIdle
    /\ \E order \in KeyOrders(DOMAIN localStorage) : \E throwsOn \in SUBSET {"r2"} :
          LET r == transformReviews(localStorage, order, throwsOn)
          IN  /\ localStorage' = r.store
              /\ probe' = [op |-> "transformReviews", before |-> localStorage,
                           throwsOn |-> throwsOn, result |-> r]
    /\ UNCHANGED <<build, calls, nCalls, faults>>

\* the patterns forEachMatchingKey is called with: /^reviews_/, /^reviews_/g, /^reviews/
Patterns ==
    { [prefix |-> ReviewsPrefix, global |-> FALSE],
      [prefix |-> ReviewsPrefix, global |-> TRUE],
      [prefix |-> Chars_reviews, global |-> FALSE] }

\* a call generalMigrations.forEachMatchingKey(pattern, handler, logger) with a
\* handler that throws on the keys of failsOn
CallForEachMatchingKey ==
    /\ LibraryIdle
    /\ \E order \in KeyOrders(DOMAIN localStorage) : \E pattern \in Patterns :
       \E failsOn \in {{}, {"reviews_1"}} :
          LET r == forEachMatchingKey(localStorage, order, pattern, failsOn)
          IN  /\ localStorage' = r.store
              /\ probe' = [op |-> "forEachMatchingKey", before |-> localStorage,
                           pattern |-> pattern, failsOn |-> failsOn, result |-> r]
    /\ UNCHANGED <<build, calls, nCalls, faults>>

\* a call generalMigrations.clearAllStorage(exceptKeys, logger)
CallClearAllStorage ==
    /\ LibraryIdle
    /\ \E exceptKeys \in {{}, {VERSION_STORAGE_KEY},
                          {VERSION_STORAGE_KEY, REVIEWS_TABLE_COLUMN_ORDER}} :
          LET r == clearAllStorage(localStorage, exceptKeys)
          IN  /\ localStorage' = r.store
              /\ probe' = [op |-> "clearAllStorage", before |-> localStorage,
                           exceptKeys |-> exceptKeys, result |-> r]
    /\ UNCHANGED <<build, calls, nCalls, faults>>

\* what the migrate functions of the model do
Outcomes ==
    { Thrown, Returned(FALSE, FALSE, FALSE, {}),
      Returned(TRUE, TRUE, FALSE, {}), Returned(TRUE, FALSE, FALSE, {}),
      Returned(FALSE, FALSE, TRUE, {"reviews_1"}),
      Returned(FALSE, FALSE, TRUE, {COMPANIES_KEY}) }

\* a call of the function createMigration({affects, migrate}) returned, with a migrate
\* that writes nothing
CallMigrationFn ==
    /\ LibraryIdle
    /\ \E affects \in {{}, {COMPANIES_KEY}} : \E outcome \in Outcomes :
          probe' = [op |-> "migrationFn", before |-> localStorage,
                    affects |-> affects, outcome |-> outcome,
                    result |-> MigrationFnResult(affects, outcome)]
    /\ UNCHANGED <<build, localStorage, calls, nCalls, faults>>

\* the startup of the application, when the library has not been called by hand
Startup == probe.op = "none" /\ Next

NextLibrary ==
    \/ CallLibraryAddField
    \/ CallLibraryRenameField
    \/ CallClearAll
    \/ CallClearAllCache
    \/ CallTransformReviews
    \/ CallForEachMatchingKey
    \/ CallClearAllStorage
    \/ CallMigrationFn
    \/ Startup

SpecLibrary == InitLibrary /\ [][NextLibrary]_vars

\* ================================================================ properties

Range(seq) == { seq[i] : i \in 1..Len(seq) }

Versions(entries) == [i \in 1..Len(entries) |-> entries[i].version]

HistoryVersions == Range(Versions(VERSION_HISTORY))

\* the sequence of versions is strictly ascending in the order of compareVersions
Ascending(versions) ==
    \A i \in 1..Len(versions) : \A j \in (i + 1)..Len(versions) :
        compareVersions(versions[i], versions[j]).value = -1

\* the entries of the history strictly after fromVersion and up to toVersion that
\* require migration
EntriesToMigrate(fromVersion, toVersion) ==
    { e \in Range(VERSION_HISTORY) :
        /\ compareVersions(fromVersion, e.version).value = -1
        /\ compareVersions(e.version, toVersion).value <= 0
        /\ e.requiresMigration }

\* the step completes an invocation of caller c (it returns its status object)
Returns(c) == calls'[c] # calls[c] /\ calls'[c].pc = "returned"

\* the store held a marker that parses and is older than the compiled-in version
StoredOlder(store) ==
    /\ HasItem(store, VERSION_STORAGE_KEY)
    /\ ~compareVersions(store[VERSION_STORAGE_KEY], APP_VERSION).threw
    /\ compareVersions(store[VERSION_STORAGE_KEY], APP_VERSION).value = -1

AllRegistered(path) ==
    \A i \in 1..Len(path) : MigrationFn(migrations, path[i].version).kind # "none"

\* C1: when the stored version is older than the compiled-in one, an invocation of
\* initializeVersioning leaves the marker equal to the compiled-in version when
\* executeMigrations reported success, and equal to the value it had before the call
\* when it reported failure (the two differ, so the marker is written if and only if
\* the run succeeded).
C1_MarkerWrittenIffSuccess ==
    [][\A c \in Callers :
         (Returns(c) /\ StoredOlder(calls'[c].storeAtCall)) =>
            LET r == calls'[c]
            IN  /\ HasItem(localStorage', VERSION_STORAGE_KEY)
                /\ r.migrationResult.success =>
                     /\ localStorage'[VERSION_STORAGE_KEY] = APP_VERSION
                     /\ r.markerWrites = 1
                /\ ~r.migrationResult.success =>
                     /\ localStorage'[VERSION_STORAGE_KEY]
                            = r.storeAtCall[VERSION_STORAGE_KEY]
                     /\ r.markerWrites = 0]_vars

\* a run that failed at its second step has returned and left the old marker
C1_Witness ==
    \E c \in Callers :
        /\ calls[c].pc = "returned"
        /\ StoredOlder(calls[c].storeAtCall)
        /\ ~calls[c].migrationResult.success
        /\ Len(calls[c].invoked) = 2
        /\ localStorage[VERSION_STORAGE_KEY] = calls[c].storeAtCall[VERSION_STORAGE_KEY]

\* index of the first result entry with success = false (0 when there is none)
FirstFailure(results) ==
    IF \E i \in 1..Len(results) : ~results[i].success
    THEN CHOOSE i \in 1..Len(results) :
            ~results[i].success /\ \A j \in 1..(i - 1) : results[j].success
    ELSE 0

\* C2: stop on first failure.  In a run whose path has a registered procedure for every
\* step, when step k is the first whose procedure reported success = false, the run
\* ends with success = false and exactly k result entries, those of steps 1..k in path
\* order, and no procedure of a later step has been invoked.
C2_StopOnFirstFailure ==
    \A c \in Callers :
        LET r == calls[c]
            k == FirstFailure(r.results)
        IN  (AllRegistered(r.migrationPath) /\ k > 0) =>
              /\ r.pc \in {"awaitExecute", "returned"}
              /\ ~r.migrationResult.success
              /\ r.migrationResult.results = r.results
              /\ Len(r.results) = k
              /\ Versions(r.results) = SubSeq(Versions(r.migrationPath), 1, k)
              /\ r.invoked = SubSeq(Versions(r.migrationPath), 1, k)

\* a three-step path whose second step failed: two result entries, the third step
\* never invoked
C2_Witness ==
    \E c \in Callers :
        /\ calls[c].pc = "returned"
        /\ Len(calls[c].migrationPath) = 3
        /\ AllRegistered(calls[c].migrationPath)
        /\ Len(calls[c].results) = 2
        /\ ~calls[c].results[2].success
        /\ Len(calls[c].invoked) = 2

\* the versions of seq that have a registered procedure, in the order of seq
RECURSIVE RegisteredOf(_)
RegisteredOf(versions) ==
    IF versions = << >> THEN << >>
    ELSE IF MigrationFn(migrations, Head(versions)).kind # "none"
         THEN <<Head(versions)>> \o RegisteredOf(Tail(versions))
         ELSE RegisteredOf(Tail(versions))

\* C3: within one run the procedures are invoked in strictly ascending version order
\* (so each at most once); a procedure is started only when every procedure started
\* before it in the run has settled and been handled; and a run that ends with success
\* from a stored version of the history to a compiled-in version of the history has
\* gone through exactly the entries of the slice that require migration, invoking the
\* procedure of each one that has a procedure.
C3_AscendingOneAtATime ==
    /\ [](\A c \in Callers :
            LET r == calls[c]
            IN  /\ Ascending(r.invoked)
                /\ (r.pc \in {"awaitExecute", "returned"}
                      /\ StoredOlder(r.storeAtCall)
                      /\ r.migrationResult.success
                      /\ r.status.fromVersion \in HistoryVersions
                      /\ APP_VERSION \in HistoryVersions) =>
                     /\ Range(r.migrationPath)
                          = EntriesToMigrate(r.status.fromVersion, APP_VERSION)
                     /\ r.invoked = RegisteredOf(Versions(r.migrationPath)))
    /\ [][\A c \in Callers :
            (calls'[c].callNo = calls[c].callNo
                /\ Len(calls'[c].invoked) > Len(calls[c].invoked)) =>
               /\ calls[c].pc = "loop"
               /\ calls[c].pending = NoPending
               /\ \A d \in Callers : calls[d].pc # "awaitStep"]_vars

\* a successful run from an unsorted history that invoked three procedures
C3_Witness ==
    \E c \in Callers :
        /\ calls[c].pc = "returned"
        /\ calls[c].migrationResult.success
        /\ VERSION_HISTORY[1].version = V_1_10_0
        /\ calls[c].invoked = <<V_1_1_0, V_1_2_0, V_1_10_0>>

\* C4: path monotonicity.  For all versions from <= to of the history, getMigrationPath
\* returns exactly the entries strictly after from and up to and including to that
\* require migration, in ascending version order; and getMigrationPath(v, v) is the
\* empty sequence for every string v.
C4_PathMonotonicity ==
    probe.op = "getMigrationPath" =>
        /\ probe.fromVersion = probe.toVersion =>
              probe.resolved = [threw |-> FALSE, path |-> << >>]
        /\ (/\ probe.fromVersion \in HistoryVersions
            /\ probe.toVersion \in HistoryVersions
            /\ compareVersions(probe.fromVersion, probe.toVersion).value <= 0) =>
              /\ ~probe.resolved.threw
              /\ Ascending(Versions(probe.resolved.path))
              /\ Range(probe.resolved.path)
                    = EntriesToMigrate(probe.fromVersion, probe.toVersion)

\* a two-step path resolved over a history that is not written in ascending order:
\* an entry that requires no migration lies inside the slice, an entry that requires
\* one lies before it
C4_Witness ==
    /\ probe.op = "getMigrationPath"
    /\ probe.fromVersion = V_1_1_0
    /\ probe.toVersion = V_1_10_0
    /\ Versions(VERSION_HISTORY) = <<V_1_10_0, V_1_0_0_alpha, V_1_2_0, V_1_1_0>>
    /\ Versions(probe.resolved.path) = <<V_1_10_0>>
    /\ \A i \in 1..Len(VERSION_HISTORY) :
          VERSION_HISTORY[i].requiresMigration <=>
              VERSION_HISTORY[i].version \in {V_1_1_0, V_1_10_0}

\* the step is one in which caller c calls saveCurrentVersion
WritesMarker(c) ==
    /\ calls'[c] # calls[c]
    /\ calls'[c].markerWrites >
          (IF calls'[c].callNo = calls[c].callNo THEN calls[c].markerWrites ELSE 0)

\* the step starts an invocation of caller c
Called(c) == calls'[c].callNo # calls[c].callNo

\* the marker key and its value are the same in both stores
SameMarker(storeA, storeB) ==
    /\ HasItem(storeA, VERSION_STORAGE_KEY) <=> HasItem(storeB, VERSION_STORAGE_KEY)
    /\ HasItem(storeA, VERSION_STORAGE_KEY) =>
          storeA[VERSION_STORAGE_KEY] = storeB[VERSION_STORAGE_KEY]

\* C5: the stored marker is written only on first run (no marker, where the code also
\* counts an empty marker) or after a migration run from the stored version to the
\* compiled-in version that ended with overall success; in every other step of any
\* sequence of invocations (failed run, downgrade, equal versions) the marker keeps its
\* value.
C5_MarkerWrittenOnlyOnFirstRunOrSuccess ==
    [][/\ \A c \in Callers :
            WritesMarker(c) =>
               \/ ~HasItem(localStorage, VERSION_STORAGE_KEY)
               \/ localStorage[VERSION_STORAGE_KEY] = << >>
               \/ /\ calls[c].pc = "awaitExecute"
                  /\ calls[c].migrationResult.success
                  /\ StoredOlder(calls[c].storeAtCall)
       /\ (\A c \in Callers : ~WritesMarker(c)) => SameMarker(localStorage, localStorage')
      ]_vars

\* C6: first run.  An invocation that finds no marker stored returns, without awaiting
\* anything, a status with firstRun = true, updated = false and migrationNeeded = false,
\* has invoked no procedure, and leaves the marker equal to the compiled-in version.
C6_FirstRun ==
    [][\A c \in Callers :
         (Called(c) /\ ~HasItem(localStorage, VERSION_STORAGE_KEY)) =>
            LET r == calls'[c]
            IN  /\ r.pc = "returned"
                /\ r.status.firstRun
                /\ ~r.status.updated
                /\ ~r.migrationNeeded
                /\ r.invoked = << >>
                /\ HasItem(localStorage', VERSION_STORAGE_KEY)
                /\ localStorage'[VERSION_STORAGE_KEY] = APP_VERSION]_vars

\* a first run of a build that has procedures registered, over a store with companies
C6_Witness ==
    \E c \in Callers :
        /\ calls[c].pc = "returned"
        /\ calls[c].status.firstRun
        /\ ~HasItem(calls[c].storeAtCall, VERSION_STORAGE_KEY)
        /\ HasItem(calls[c].storeAtCall, COMPANIES_KEY)
        /\ DOMAIN migrations = LaterVersions
        /\ localStorage[VERSION_STORAGE_KEY] = APP_VERSION

\* C7: no-op update.  An invocation that finds the marker equal to the compiled-in
\* version returns updated = false and migrationNeeded = false, invokes no procedure,
\* does not call saveCurrentVersion and leaves the whole store as it was.
C7_NoOpUpdate ==
    [][\A c \in Callers :
         (/\ Called(c)
          /\ HasItem(localStorage, VERSION_STORAGE_KEY)
          /\ localStorage[VERSION_STORAGE_KEY] = APP_VERSION) =>
            LET r == calls'[c]
            IN  /\ r.pc = "returned"
                /\ ~r.status.firstRun
                /\ ~r.status.updated
                /\ ~r.migrationNeeded
                /\ r.migrationResult.success
                /\ r.invoked = << >>
                /\ r.markerWrites = 0
                /\ localStorage' = localStorage]_vars

\* an invocation over a marker equal to the compiled-in version has returned; the
\* version carries a label and the store holds companies
C7_Witness ==
    \E c \in Callers :
        /\ calls[c].pc = "returned"
        /\ HasItem(calls[c].storeAtCall, VERSION_STORAGE_KEY)
        /\ calls[c].storeAtCall[VERSION_STORAGE_KEY] = APP_VERSION
        /\ APP_VERSION = V_1_0_0_alpha
        /\ HasItem(localStorage, COMPANIES_KEY)
        /\ localStorage = calls[c].storeAtCall

\* C8: initializeVersioning never throws: no invocation ends with its promise rejected,
\* whatever the stored marker holds and however the procedures behave.
C8_NeverThrows ==
    \A c \in Callers : calls[c].pc # "rejected"

\* the stored version or the compiled-in version is missing from the history
UnknownVersion(r) ==
    /\ StoredOlder(r.storeAtCall)
    /\ \/ r.status.fromVersion \notin HistoryVersions
       \/ APP_VERSION \notin HistoryVersions

\* C9: when the stored or the target version is not in the history, the
\* run is reported to the caller as a failure with an error, and no procedure is
\* invoked.
C9_UnknownVersionFails ==
    \A c \in Callers :
        (calls[c].pc = "returned" /\ UnknownVersion(calls[c])) =>
            /\ ~calls[c].migrationResult.success
            /\ calls[c].migrationResult.hasError
            /\ calls[c].invoked = << >>

\* the store after the procedures of the versions are run one after the other, none
\* of them failing by itself
RECURSIVE RunPath(_, _)
RunPath(store, versions) ==
    IF versions = << >> THEN store
    ELSE LET migrationFn == MigrationFn(migrations, Head(versions))
         IN  IF migrationFn.kind = "none" THEN RunPath(store, Tail(versions))
             ELSE RunPath(createMigration(store, migrationFn, "none").store,
                          Tail(versions))

\* C10: retry safety.  When the first invocation failed at some step of its path (marker
\* left unchanged) and the next invocation re-ran the whole path with success, the
\* companies collection is what one uninterrupted successful run of the path on the
\* original store would have left.
C10_RetrySafe ==
    LET first == calls["startup"]
        retry == calls["recheck"]
    IN  (/\ first.pc = "returned"
         /\ StoredOlder(first.storeAtCall)
         /\ ~first.migrationResult.success
         /\ retry.pc = "returned"
         /\ retry.callNo = 2
         /\ nCalls = 2
         /\ retry.migrationPath = first.migrationPath
         /\ retry.migrationResult.success
         /\ HasItem(localStorage, COMPANIES_KEY)) =>
            localStorage[COMPANIES_KEY]
               = RunPath(first.storeAtCall, Versions(first.migrationPath))[COMPANIES_KEY]

\* every procedure the run invoked returned a result with success = true
NoStepFailed(r) ==
    /\ Len(r.results) = Len(r.invoked)
    /\ \A i \in 1..Len(r.results) : r.results[i].success

\* C11: a path step that requires migration but has no registered procedure is a no-op
\* success.  A run over a path with such a step, in which every procedure that was
\* invoked succeeded, has gone on past the step (it invoked the procedure of every
\* registered step of the path, in path order), reports overall success, and
\* initializeVersioning has then advanced the marker to the compiled-in version.
C11_UnregisteredStepIsNoOp ==
    \A c \in Callers :
        LET r == calls[c]
        IN  (/\ r.pc = "returned"
             /\ r.migrationPath # << >>
             /\ ~AllRegistered(r.migrationPath)
             /\ NoStepFailed(r)) =>
                /\ r.migrationResult.success
                /\ r.migrationResult = MigratedResult(r.affectedKeys, r.results)
                /\ r.invoked = RegisteredOf(Versions(r.migrationPath))
                /\ r.markerWrites = 1
                /\ localStorage[VERSION_STORAGE_KEY] = APP_VERSION

\* a three-step path whose second step has no procedure: the first and the third
\* procedure were invoked and the marker was advanced
C11_Witness ==
    \E c \in Callers :
        /\ calls[c].pc = "returned"
        /\ Versions(calls[c].migrationPath) = <<V_1_1_0, V_1_2_0, V_1_10_0>>
        /\ DOMAIN migrations = {V_1_1_0, V_1_10_0}
        /\ calls[c].invoked = <<V_1_1_0, V_1_10_0>>
        /\ calls[c].migrationResult.success
        /\ localStorage[VERSION_STORAGE_KEY] = APP_VERSION

\* the records under the companies key of a store that holds the text of an array
Records(store) == store[COMPANIES_KEY].recs

\* the store holds the text of an array under the companies key
HasRecords(store) ==
    HasItem(store, COMPANIES_KEY) /\ store[COMPANIES_KEY].kind = "array"

\* C12: addField is idempotent.  After one call addField(fieldName, defaultValue), a
\* second call with the same arguments leaves the store as the first call left it (and
\* ends the way the first did), for every stored collection, field and default.
C12_AddFieldIdempotent ==
    probe.op = "addField" =>
        LET again == addField(localStorage, probe.argA, probe.argB)
        IN  /\ again.store = localStorage
            /\ again.threw = probe.threw

\* a call that changed a collection of two records, one without the field and one
\* with the field null
C12_Witness ==
    /\ probe.op = "addField"
    /\ probe.argA = "industry"
    /\ probe.argB = "Technology"
    /\ HasRecords(probe.before)
    /\ Len(Records(probe.before)) = 2
    /\ Records(probe.before)[1]["industry"] = Absent
    /\ Records(probe.before)[2]["industry"] = "Media"
    /\ localStorage # probe.before

\* C13: addField(fieldName, defaultValue) sets the field to the default only in records
\* where the field is absent; every record that has the field keeps its value, whatever
\* it is; the other fields, the order and the number of records are unchanged, and the
\* returned count is the number of records written.
C13_AddFieldOnlyWhereAbsent ==
    (probe.op = "addField" /\ HasRecords(probe.before)) =>
        LET before == Records(probe.before)
            after == Records(localStorage)
        IN  /\ ~probe.threw
            /\ Len(after) = Len(before)
            /\ probe.updated = Len(after)
            /\ \A i \in 1..Len(before) : \A f \in FieldNames :
                  after[i][f] = IF f = probe.argA /\ before[i][f] = Absent
                                THEN probe.argB
                                ELSE before[i][f]

\* C14: renameField(oldName, newName), for all field names: in every record that had
\* oldName its value is afterwards under newName and oldName is no field of the record
\* (unless it is newName itself); every record without oldName is unchanged.
C14_RenameFieldMovesValue ==
    (probe.op = "renameField" /\ HasRecords(probe.before)) =>
        LET before == Records(probe.before)
            after == Records(localStorage)
            oldName == probe.argA
            newName == probe.argB
        IN  /\ ~probe.threw
            /\ Len(after) = Len(before)
            /\ \A i \in 1..Len(before) :
                  IF before[i][oldName] # Absent
                  THEN /\ after[i][newName] = before[i][oldName]
                       /\ oldName # newName => after[i][oldName] = Absent
                  ELSE after[i] = before[i]

\* C19: checkVersionStatus is a pure comparison.  For every store it writes and
\* removes nothing and returns a status: firstRun exactly when no marker is stored (an
\* empty marker is taken as none), updated exactly when the stored and the compiled
\* version compare unequal, isNewer when the compiled version is the greater one and
\* isOlder when it is the smaller one.
C19_CheckVersionStatusPure ==
    probe.op = "checkVersionStatus" =>
        LET store == probe.before
            marked == HasItem(store, VERSION_STORAGE_KEY)
                          /\ store[VERSION_STORAGE_KEY] # S_empty
        IN  /\ localStorage = store
            /\ ~probe.status.threw
            /\ probe.status.firstRun <=> ~marked
            /\ marked =>
                  LET versionCompare ==
                          compareVersions(store[VERSION_STORAGE_KEY], APP_VERSION)
                  IN  /\ ~versionCompare.threw
                      /\ probe.status.updated <=> versionCompare.value # 0
                      /\ probe.status.isNewer <=> versionCompare.value < 0
                      /\ probe.status.isOlder <=> versionCompare.value > 0

(***************************************************************************)
(* The version functions called directly: parseVersion on every string of  *)
(* up to MaxLen characters over a small alphabet and on the version         *)
(* strings of the builds, compareVersions on every three version strings    *)
(* put together from written numbers and labels.  One call per behaviour.   *)
(***************************************************************************)
Alphabet == {"0", "1", ".", "-", "a"}

VersionStrings ==
    UNION { [1..n -> Alphabet] : n \in 0..MaxLen }
        \cup {V_1_0_0_alpha, V_1_0_0_beta, V_1_10_0, S_malformed}

\* written numbers with their values: 10 is above 2, 00 is 0
MajorNumerals == {<<"1">>, <<"2">>, <<"1", "0">>}
MinorNumerals == {<<"0">>, <<"1">>}
PatchNumerals == {<<"0">>, <<"0", "0">>}

NumeralValue(numeral) ==
    CASE numeral = <<"0">> -> 0
      [] numeral = <<"0", "0">> -> 0
      [] numeral = <<"1">> -> 1
      [] numeral = <<"2">> -> 2
      [] numeral = <<"1", "0">> -> 10

\* the labels in ascending order; << >> stands for no label
LabelsAscending == << <<"a">>, <<"a", "l", "p", "h", "a">>, <<"b", "e", "t", "a">> >>

VersionParts ==
    [major : MajorNumerals, minor : MinorNumerals, patch : PatchNumerals,
     label : Range(LabelsAscending) \cup {<< >>}]

\* the version string written from its parts
VersionText(parts) ==
    parts.major \o <<".">> \o parts.minor \o <<".">> \o parts.patch
        \o (IF parts.label = << >> THEN << >> ELSE <<"-">> \o parts.label)

InitVersion ==
    /\ APP_VERSION = RepositoryBuild.app
    /\ VERSION_HISTORY = RepositoryBuild.history
    /\ migrations = << >>
    /\ localStorage = << >>
    /\ calls = [c \in Callers |-> IdleCall]
    /\ nCalls = 0
    /\ faults = 0
    /\ probe = NoProbe

\* parseVersion(versionStr), called once
CallParseVersion ==
    /\ probe.op = "none"
    /\ \E versionStr \in VersionStrings :
          probe' = [op |-> "parseVersion", versionStr |-> versionStr,
                    parsed |-> parseVersion(versionStr)]
    /\ UNCHANGED <<build, localStorage, calls, nCalls, faults>>

\* compareVersions called on the pairs of three versions a, b, c
CallCompareVersions ==
    /\ probe.op = "none"
    /\ \E a, b, c \in VersionParts :
          probe' = [op |-> "compareVersions", a |-> a, b |-> b, c |-> c,
                    aa |-> compareVersions(VersionText(a), VersionText(a)),
                    ab |-> compareVersions(VersionText(a), VersionText(b)),
                    ba |-> compareVersions(VersionText(b), VersionText(a)),
                    bc |-> compareVersions(VersionText(b), VersionText(c)),
                    ac |-> compareVersions(VersionText(a), VersionText(c))]
    /\ UNCHANGED <<build, localStorage, calls, nCalls, faults>>

NextVersion == CallParseVersion \/ CallCompareVersions

SpecVersion == InitVersion /\ [][NextVersion]_vars

\* position of a label in LabelsAscending
LabelRank(label) == CHOOSE i \in 1..Len(LabelsAscending) : LabelsAscending[i] = label

\* the numbers and the label of written parts
SameVersion(a, b) ==
    /\ NumeralValue(a.major) = NumeralValue(b.major)
    /\ NumeralValue(a.minor) = NumeralValue(b.minor)
    /\ NumeralValue(a.patch) = NumeralValue(b.patch)
    /\ a.label = b.label

\* a is below b by the rule: major, then minor, then patch by value, then a labelled
\* version below the unlabelled one, then two labels by their order
VersionBelow(a, b) ==
    \/ NumeralValue(a.major) < NumeralValue(b.major)
    \/ /\ NumeralValue(a.major) = NumeralValue(b.major)
       /\ \/ NumeralValue(a.minor) < NumeralValue(b.minor)
          \/ /\ NumeralValue(a.minor) = NumeralValue(b.minor)
             /\ \/ NumeralValue(a.patch) < NumeralValue(b.patch)
                \/ /\ NumeralValue(a.patch) = NumeralValue(b.patch)
                   /\ \/ a.label # << >> /\ b.label = << >>
                      \/ /\ a.label # << >> /\ b.label # << >>
                         /\ LabelRank(a.label) < LabelRank(b.label)

\* C15: compareVersions is a total order on valid version strings.  For all versions
\* a, b, c: compare(a,b) = -compare(b,a), and it is 0 exactly for the same version;
\* a <= b and b <= c give a <= c (strictly when one of the two is strict); the value is
\* decided by major, then minor, then patch as numbers, then an unlabelled version is
\* above a labelled one, then two labels are ordered as labels.
C15_TotalOrder ==
    probe.op = "compareVersions" =>
        /\ ~probe.aa.threw /\ ~probe.ab.threw /\ ~probe.ba.threw
        /\ ~probe.bc.threw /\ ~probe.ac.threw
        /\ probe.aa.value = 0
        /\ probe.ab.value \in {-1, 0, 1}
        /\ probe.ab.value = -probe.ba.value
        /\ probe.ab.value = 0 <=> SameVersion(probe.a, probe.b)
        /\ (probe.ab.value <= 0 /\ probe.bc.value <= 0) => probe.ac.value <= 0
        /\ (probe.ab.value < 0 /\ probe.bc.value <= 0) => probe.ac.value < 0
        /\ (probe.ab.value <= 0 /\ probe.bc.value < 0) => probe.ac.value < 0
        /\ probe.ab.value = -1 <=> VersionBelow(probe.a, probe.b)
        /\ probe.ab.value = 1 <=> VersionBelow(probe.b, probe.a)

\* compare("10.0.0", "2.0.00-alpha") = 1, compare("2.0.00-alpha", "2.0.0") = -1
C15_Witness ==
    /\ probe.op = "compareVersions"
    /\ VersionText(probe.a) = <<"1", "0", ".", "0", ".", "0">>
    /\ VersionText(probe.b) = <<"2", ".", "0", ".", "0", "0", "-", "a", "l", "p", "h", "a">>
    /\ VersionText(probe.c) = V_2_0_0
    /\ probe.ab.value = 1
    /\ probe.bc.value = -1
    /\ probe.ac.value = 1

\* every position lo..hi of s holds a digit, and there is at least one
AllDigits(s, lo, hi) == lo <= hi /\ \A k \in lo..hi : s[k] \in Digits

\* the ways to read s as MAJOR.MINOR.PATCH or MAJOR.MINOR.PATCH-LABEL: i and j are the
\* positions of the two dots, e is the last position of PATCH; the label is not empty
VersionForms(s) ==
    { f \in (1..Len(s)) \X (1..Len(s)) \X (1..Len(s)) :
        /\ f[1] < f[2] /\ f[2] < f[3]
        /\ s[f[1]] = "." /\ s[f[2]] = "."
        /\ AllDigits(s, 1, f[1] - 1)
        /\ AllDigits(s, f[1] + 1, f[2] - 1)
        /\ AllDigits(s, f[2] + 1, f[3])
        /\ \/ f[3] = Len(s)
           \/ f[3] + 1 < Len(s) /\ s[f[3] + 1] = "-" }

\* 10 to the power n
RECURSIVE PowerOfTen(_)
PowerOfTen(n) == IF n = 0 THEN 1 ELSE 10 * PowerOfTen(n - 1)

\* the number the digits s[lo] .. s[hi] write in decimal
RECURSIVE DecimalValue(_, _, _)
DecimalValue(s, lo, hi) ==
    IF lo > hi THEN 0
    ELSE (CHOOSE d \in 0..9 : ToString(d) = s[lo]) * PowerOfTen(hi - lo)
             + DecimalValue(s, lo + 1, hi)

\* C16: parseVersion throws the invalid-format error on every string that is not of the
\* form MAJOR.MINOR.PATCH or MAJOR.MINOR.PATCH-LABEL with non-negative integer parts and
\* returns no default; a string of that form reads in one way only, and the call returns
\* its three numbers, its label (null when there is none) and the raw string.
C16_ParseVersion ==
    probe.op = "parseVersion" =>
        LET s == probe.versionStr
            forms == VersionForms(s)
        IN  /\ probe.parsed.ok <=> forms # {}
            /\ Cardinality(forms) <= 1
            /\ probe.parsed.raw = s
            /\ \A f \in forms :
                  /\ probe.parsed.major = DecimalValue(s, 1, f[1] - 1)
                  /\ probe.parsed.minor = DecimalValue(s, f[1] + 1, f[2] - 1)
                  /\ probe.parsed.patch = DecimalValue(s, f[2] + 1, f[3])
                  /\ probe.parsed.hasLabel <=> f[3] < Len(s)
                  /\ probe.parsed.hasLabel =>
                        probe.parsed.label = SubSeq(s, f[3] + 2, Len(s))

\* parseVersion("1.0.1-a"): a labelled string that parses
C16_Witness ==
    /\ probe.op = "parseVersion"
    /\ probe.versionStr = <<"1", ".", "0", ".", "1", "-", "a">>
    /\ probe.parsed.ok
    /\ probe.parsed.major = 1
    /\ probe.parsed.patch = 1
    /\ probe.parsed.hasLabel
    /\ probe.parsed.label = <<"a">>

\* C17: the version history is strictly increasing by version with no version twice,
\* and this is checked when the history is constructed: over a history that is not
\* strictly ascending no path is resolved, the call fails with MalformedHistory.
C17_MalformedHistoryFailsFast ==
    (probe.op = "getMigrationPath" /\ ~Ascending(Versions(VERSION_HISTORY))) =>
        probe.resolved.threw

\* C18: the example workflow end to end.  History [1.0.0 (no migration), 1.1.0
\* (requires migration)], stored marker 1.0.0, compiled version 1.1.0, the registered
\* 1.1.0 procedure addField("industry", "Technology"), companies [{id: 1, name: "Acme"}]:
\* initializeVersioning runs exactly that procedure, companies becomes
\* [{id: 1, name: "Acme", industry: "Technology"}], the marker becomes 1.1.0, and the
\* returned status has migrationResult.success with affectedKeys = {companies}.
C18_GuideScenario ==
    \A c \in Callers :
        (/\ build = <<GuideBuild.app, GuideBuild.history, GuideBuild.migrations>>
         /\ calls[c].pc = "returned"
         /\ calls[c].callNo = nCalls
         /\ calls[c].storeAtCall = GuideStore
         /\ faults = 0) =>
            /\ calls[c].invoked = <<V_1_1_0>>
            /\ localStorage =
                  [GuideStore EXCEPT
                      ![COMPANIES_KEY] = JSONstringify(<<Company("Technology", Absent)>>),
                      ![VERSION_STORAGE_KEY] = V_1_1_0]
            /\ calls[c].migrationNeeded
            /\ calls[c].migrationResult.success
            /\ calls[c].migrationResult.affectedKeys = {COMPANIES_KEY}

\* the first invocation of the example workflow has returned
C18_Witness ==
    /\ build = <<GuideBuild.app, GuideBuild.history, GuideBuild.migrations>>
    /\ calls["startup"].pc = "returned"
    /\ nCalls = 1
    /\ calls["startup"].storeAtCall = GuideStore
    /\ faults = 0
    /\ localStorage[VERSION_STORAGE_KEY] = V_1_1_0
    /\ Records(localStorage) = <<Company("Technology", Absent)>>

\* the procedure invoked last in r rejected and the rejection has been handled: it
\* was invoked and left no result entry
Rejected(r) == r.pc # "awaitStep" /\ Len(r.invoked) > Len(r.results)

\* C20: when a registered procedure throws instead of returning a result,
\* executeMigrations halts the path at that step, invokes no later step and returns
\* (does not throw) success = false with the results of the earlier steps and the
\* error; initializeVersioning then leaves the stored marker as it was.
C20_ThrowingProcedureHalts ==
    \A c \in Callers :
        LET r == calls[c]
            k == Len(r.invoked)
        IN  /\ (r.pc \in {"awaitExecute", "returned"} /\ FirstFailure(r.results) > 0) =>
                  \* migrate threw inside createMigration, which reports success = false
                  /\ ~r.migrationResult.success
                  /\ r.migrationResult.hasError
                  /\ r.migrationResult.results = r.results
                  /\ FirstFailure(r.results) = Len(r.results)
                  /\ r.invoked[k] = r.results[Len(r.results)].version
                  /\ r.pc = "returned" =>
                        /\ r.markerWrites = 0
                        /\ r.callNo = nCalls => SameMarker(localStorage, r.storeAtCall)
            /\ Rejected(r) =>
              \* the registered function itself rejected
              /\ r.pc \in {"awaitExecute", "returned"}
              /\ ~r.migrationResult.success
              /\ r.migrationResult.hasError
              /\ r.migrationResult.results = r.results
              /\ Len(r.results) = k - 1
              /\ \A i \in 1..(k - 1) :
                    r.results[i].success /\ r.results[i].version = r.invoked[i]
              /\ r.invoked[k] = r.migrationPath[r.idx].version
              /\ r.invoked = RegisteredOf(SubSeq(Versions(r.migrationPath), 1, r.idx))
              /\ r.pc = "returned" =>
                    /\ r.markerWrites = 0
                    /\ r.callNo = nCalls => SameMarker(localStorage, r.storeAtCall)

\* the procedure of the second of three steps rejected: one result entry, the third
\* step never invoked, the marker as it was
C20_Witness ==
    \E c \in Callers :
        /\ calls[c].pc = "returned"
        /\ Len(calls[c].migrationPath) = 3
        /\ calls[c].idx = 2
        /\ Len(calls[c].invoked) = 2
        /\ Len(calls[c].results) = 1
        /\ ~calls[c].migrationResult.success
        /\ localStorage[VERSION_STORAGE_KEY] = calls[c].storeAtCall[VERSION_STORAGE_KEY]

\* C30: in a multi-step path executeMigrations invokes every step's procedure with
\* fromVersion equal to the version that was stored when the run began (not the version
\* the step before reached) and toVersion equal to the step's own version.
C30_StepsCalledWithStoredVersion ==
    \A c \in Callers :
        LET r == calls[c]
        IN  /\ Len(r.arguments) = Len(r.invoked)
            /\ \A i \in 1..Len(r.arguments) :
                  /\ r.arguments[i].fromVersion = r.storeAtCall[VERSION_STORAGE_KEY]
                  /\ r.arguments[i].toVersion = r.invoked[i]
                  /\ \E j \in 1..Len(r.migrationPath) :
                        r.migrationPath[j].version = r.arguments[i].toVersion

\* three steps have been invoked, each with the stored version 1.0.0-alpha
C30_Witness ==
    \E c \in Callers :
        /\ Len(calls[c].arguments) = 3
        /\ calls[c].storeAtCall[VERSION_STORAGE_KEY] = V_1_0_0_alpha
        /\ calls[c].arguments[3] = [fromVersion |-> V_1_0_0_alpha, toVersion |-> V_1_10_0]

\* the invocations that are in progress
InProgress == {c \in Callers : calls[c].pc \notin Quiescent}

C28_DowngradeLeavesStore ==
    \A c \in Callers :
        LET r == calls[c]
        IN  (/\ r.pc = "returned"
             /\ r.callNo = nCalls
             /\ HasItem(r.storeAtCall, VERSION_STORAGE_KEY)
             /\ ~compareVersions(r.storeAtCall[VERSION_STORAGE_KEY], APP_VERSION).threw
             /\ compareVersions(r.storeAtCall[VERSION_STORAGE_KEY], APP_VERSION).value = 1) =>
                /\ r.migrationPath = << >>
                /\ r.invoked = << >>
                /\ ~r.migrationNeeded
                /\ r.status.updated
                /\ r.status.isOlder
                /\ localStorage = r.storeAtCall

\* the companies text of the store does not parse
Unreadable(store) ==
    HasItem(store, COMPANIES_KEY) /\ store[COMPANIES_KEY].kind = "garbage"

\* C21: when addField or renameField cannot parse the stored text of its collection, the
\* failure propagates to the calling procedure and becomes the failure of that step
\* (success = false, run halted), and the store is exactly as it was before the
\* primitive was called.
C21_UnreadableCollectionFailsStep ==
    \A c \in Callers :
        LET r == calls[c]
        IN  (Unreadable(r.storeAtCall) /\ r.invoked # << >> /\ r.callNo = nCalls) =>
              /\ Len(r.invoked) = 1
              /\ localStorage = r.storeAtCall
              /\ r.markerWrites = 0
              /\ (r.pc = "awaitStep" /\ faults = 0) =>
                    r.pending = [threw |-> FALSE, success |-> FALSE,
                                 affectedKeys |-> Affects, hasError |-> TRUE]
              /\ r.pc # "awaitStep" =>
                    /\ r.pc \in {"awaitExecute", "returned"}
                    /\ ~r.migrationResult.success
                    /\ r.migrationResult.hasError
                    /\ r.migrationResult.results = r.results
                    /\ faults = 0 =>
                          /\ Len(r.results) = 1
                          /\ ~r.results[1].success
                          /\ r.results[1].version = r.invoked[1]

\* a run over an unreadable collection has returned: its first step, a three-step
\* path's, failed without a fault of its own
C21_Witness ==
    \E c \in Callers :
        /\ calls[c].pc = "returned"
        /\ Unreadable(calls[c].storeAtCall)
        /\ faults = 0
        /\ Len(calls[c].migrationPath) = 3
        /\ Len(calls[c].invoked) = 1
        /\ ~calls[c].migrationResult.success

\* key k is in both stores with the same value, or in neither
SameEntry(storeA, storeB, k) ==
    /\ HasItem(storeA, k) <=> HasItem(storeB, k)
    /\ HasItem(storeA, k) => storeA[k] = storeB[k]

\* the keys of the store with the prefix reviews_
CacheKeysOf(store) == { k \in DOMAIN store : StartsWith(k, ReviewsPrefix) }

\* the transformer throws on a review of the cache under key k
TransformerThrows(store, k, throwsOn) ==
    /\ store[k].kind = "cache"
    /\ \E i \in 1..Len(store[k].reviews) : store[k].reviews[i].id \in throwsOn

\* C22: transformReviews returns its counters and never throws; processed counts every
\* key with the reviews_ prefix; every entry that is unparsable or missing (an empty
\* text) is left as it was and adds one to failed, as does an entry the transformer
\* throws on; every other cache is rewritten with each review transformed.
C22_TransformReviewsCountsSkipped ==
    probe.op = "transformReviews" =>
        LET cacheKeys == CacheKeysOf(probe.before)
            skipped == { k \in cacheKeys : probe.before[k].kind \in {"garbage", "empty"} }
            throwing == { k \in cacheKeys :
                            TransformerThrows(probe.before, k, probe.throwsOn) }
            caches == { k \in cacheKeys : probe.before[k].kind = "cache" } \ throwing
        IN  /\ ~probe.result.threw
            /\ probe.result.processed = Cardinality(cacheKeys)
            /\ probe.result.failed = Cardinality(skipped) + Cardinality(throwing)
            /\ probe.result.updated = Cardinality(caches)
            /\ \A k \in skipped \cup throwing : SameEntry(localStorage, probe.before, k)
            /\ \A k \in caches :
                  /\ HasItem(localStorage, k)
                  /\ localStorage[k].reviews =
                        [i \in 1..Len(probe.before[k].reviews) |->
                            Transformed(probe.before[k].reviews[i])]

\* C23: forEachMatchingKey calls the handler exactly once for every key of the store
\* that matches the pattern and for no other key, a handler that throws on one key
\* does not keep it from the others, processed = succeeded + failed, and failed is
\* the number of keys the handler threw on.
C23_ForEachMatchingKeyIsolation ==
    probe.op = "forEachMatchingKey" =>
        LET matching == { k \in DOMAIN probe.before :
                            StartsWith(k, probe.pattern.prefix) }
            handled == probe.result.handled
        IN  /\ ~probe.result.threw
            /\ Range(handled) = matching
            /\ Len(handled) = Cardinality(matching)
            /\ probe.result.processed = probe.result.succeeded + probe.result.failed
            /\ probe.result.processed = Cardinality(matching)
            /\ probe.result.failed = Cardinality(matching \cap probe.failsOn)

\* C24: after clearAllCache no key with the reviews_ prefix remains, every other key
\* has the value it had, and the returned count is the number of entries removed;
\* clearAll removes the companies collection, leaves every other key, and returns the
\* number of entries it removed.
C24_ClearingReturnsCount ==
    /\ probe.op = "clearAllCache" =>
          /\ CacheKeysOf(localStorage) = {}
          /\ \A k \in DOMAIN probe.before \ CacheKeysOf(probe.before) :
                SameEntry(localStorage, probe.before, k)
          /\ probe.result.clearedCount = Cardinality(CacheKeysOf(probe.before))
    /\ probe.op = "clearAll" =>
          /\ ~HasItem(localStorage, COMPANIES_KEY)
          /\ \A k \in DOMAIN probe.before \ {COMPANIES_KEY} :
                SameEntry(localStorage, probe.before, k)
          /\ probe.result.cleared.type = "number"
          /\ probe.result.cleared.value =
                Cardinality(DOMAIN probe.before \cap {COMPANIES_KEY})

\* the operations of the migration primitive library
LibraryOps ==
    {"addField", "renameField", "clearAll", "clearAllCache", "transformReviews",
     "clearAllStorage"}

\* C25: no operation of the migration primitive library changes or deletes the
\* app_version key, and after a run of executeMigrations that failed the marker is the
\* one that was stored before the run.
C25_OnlyTrackerWritesMarker ==
    /\ probe.op \in LibraryOps => SameMarker(localStorage, probe.before)
    /\ \A c \in Callers :
          (/\ calls[c].pc = "returned"
           /\ calls[c].callNo = nCalls
           /\ Len(calls[c].migrationPath) > 0
           /\ ~calls[c].migrationResult.success)
              => SameMarker(localStorage, calls[c].storeAtCall)

\* C26: addField and renameField change no key but companies; transformReviews and
\* clearAllCache change no key without the reviews_ prefix; a returned call of
\* initializeVersioning whose path was empty has changed no key but the version marker.
C26_OnlyDesignatedKeys ==
    /\ probe.op \in {"addField", "renameField"} =>
          \A k \in (DOMAIN probe.before \cup DOMAIN localStorage) \ {COMPANIES_KEY} :
              SameEntry(localStorage, probe.before, k)
    /\ probe.op \in {"transformReviews", "clearAllCache"} =>
          \A k \in DOMAIN probe.before \cup DOMAIN localStorage :
              ~StartsWith(k, ReviewsPrefix) => SameEntry(localStorage, probe.before, k)
    /\ \A c \in Callers :
          (/\ calls[c].pc = "returned"
           /\ calls[c].callNo = nCalls
           /\ calls[c].migrationPath = << >>)
              => \A k \in (DOMAIN calls[c].storeAtCall \cup DOMAIN localStorage)
                              \ {VERSION_STORAGE_KEY} :
                     SameEntry(localStorage, calls[c].storeAtCall, k)

\* clearAllCache has removed two caches from a store that also holds the marker, the
\* companies and the column order of the reviews table
C26_Witness ==
    /\ probe.op = "clearAllCache"
    /\ probe.result.clearedCount = 2
    /\ HasItem(probe.before, VERSION_STORAGE_KEY)
    /\ HasItem(probe.before, COMPANIES_KEY)
    /\ DOMAIN localStorage =
          {VERSION_STORAGE_KEY, COMPANIES_KEY, REVIEWS_TABLE_COLUMN_ORDER}

\* C29: the result of a function made by createMigration carries as affectedKeys the
\* keys declared in affects, whatever migrate returns and when it throws.
C29_ResultCarriesAffects ==
    probe.op = "migrationFn" => probe.result.affectedKeys = probe.affects

\* sequence a is the beginning of sequence b
Prefix(a, b) == Len(a) <= Len(b) /\ SubSeq(b, 1, Len(a)) = a

\* the invocation has resolved its path
PathResolved(r) == r.pc \in {"loop", "awaitStep", "awaitExecute", "returned"}

\* C31: after an invocation whose run failed at a step of its path, the next
\* invocation resolves the same path and starts with its first step: the procedures
\* it calls are those the failed run called, from the first one on and in the same
\* order, and unless it fails itself before it has called every procedure that
\* succeeded in the failed run again.
C31_RetryRestartsFromFirstStep ==
    \A c \in Callers : \A d \in Callers :
        LET first == calls[c]
            retry == calls[d]
        IN  (/\ first.pc = "returned"
             /\ first.migrationPath # << >>
             /\ ~first.migrationResult.success
             /\ retry.callNo = first.callNo + 1
             /\ PathResolved(retry)) =>
                /\ retry.migrationPath = first.migrationPath
                /\ retry.pc = "loop" /\ retry.invoked = << >> /\ retry.results = << >>
                      => \A i \in 1..(retry.idx - 1) :
                             MigrationFn(migrations,
                                         retry.migrationPath[i].version).kind = "none"
                /\ Prefix(retry.invoked, first.invoked)
                      \/ Prefix(first.invoked, retry.invoked)
                /\ retry.pc = "returned" =>
                      \/ Len(retry.invoked) >= Len(first.invoked)
                      \/ /\ ~retry.migrationResult.success
                         /\ Len(retry.invoked) < Len(first.invoked)

\* a run failed at its second procedure and the next invocation ran the whole path,
\* calling the first procedure again
C31_Witness ==
    /\ calls["startup"].pc = "returned"
    /\ ~calls["startup"].migrationResult.success
    /\ Len(calls["startup"].invoked) = 2
    /\ calls["recheck"].pc = "returned"
    /\ calls["recheck"].callNo = 2
    /\ calls["recheck"].migrationResult.success
    /\ Len(calls["recheck"].invoked) = 3
    /\ calls["recheck"].invoked[1] = calls["startup"].invoked[1]

\* the invocation found a stored version older than the compiled-in one for which
\* getMigrationPath returns the empty path
EmptyPath(r) ==
    /\ StoredOlder(r.storeAtCall)
    /\ LET resolved == getMigrationPath(VERSION_HISTORY, r.status.fromVersion, APP_VERSION)
       IN  ~resolved.threw /\ resolved.path = << >>

\* C32: when the stored version is older than the compiled-in one and the resolved
\* path is empty, the run reports success with the message of the empty path and no
\* results, no procedure is invoked, and the invocation that has returned has written
\* the compiled-in version to the marker once and left every other key as it was.
C32_EmptyPathAdvancesMarker ==
    \A c \in Callers :
        LET r == calls[c]
        IN  (r.callNo = nCalls /\ EmptyPath(r)) =>
               /\ r.invoked = << >>
               /\ r.pc \in {"awaitExecute", "returned"} =>
                     r.migrationResult = NoMigrationsRequiredResult
               /\ r.pc # "returned" => localStorage = r.storeAtCall
               /\ r.pc = "returned" =>
                     /\ r.migrationNeeded
                     /\ r.markerWrites = 1
                     /\ localStorage = saveCurrentVersion(r.storeAtCall, APP_VERSION)

\* an invocation has returned over a store of release 1.1.0 holding companies, in a
\* build whose only later release requires no migration
C32_Witness ==
    \E c \in Callers :
        /\ calls[c].pc = "returned"
        /\ EmptyPath(calls[c])
        /\ APP_VERSION \in HistoryVersions
        /\ calls[c].status.fromVersion \in HistoryVersions
        /\ HasItem(calls[c].storeAtCall, COMPANIES_KEY)
        /\ localStorage[VERSION_STORAGE_KEY] = APP_VERSION
        /\ calls[c].storeAtCall[VERSION_STORAGE_KEY] # APP_VERSION

\* where the run of executeMigrations of an invocation is: Idle before the call of
\* executeMigrations (which resolves the path when it is called), Running in the loop,
\* and by the value it returned NoopComplete, Complete or Failed; None for an
\* invocation that calls no executeMigrations
RunPhase(r) ==
    IF r.pc = "checkMigrationNeeded" THEN "Idle"
    ELSE IF r.pc \in {"loop", "awaitStep"} THEN "Running"
    ELSE IF r.pc \in {"awaitExecute", "returned"} /\ r.migrationNeeded
    THEN (IF ~r.migrationResult.success THEN "Failed"
          ELSE IF r.migrationResult.hasResults THEN "Complete"
          ELSE "NoopComplete")
    ELSE "None"

RunEdges ==
    {<<"Idle", "None">>, <<"Idle", "NoopComplete">>, <<"Idle", "Running">>,
     <<"Running", "Complete">>, <<"Running", "Failed">>}

\* one step of the program seen from the run of invocation c
RunStep(c) ==
    LET p == RunPhase(calls[c])
        q == RunPhase(calls'[c])
    IN  IF calls'[c].callNo # calls[c].callNo
        THEN p \notin {"Idle", "Running"} /\ q \in {"None", "Idle"}
        ELSE /\ p = q \/ <<p, q>> \in RunEdges
             /\ p \in {"NoopComplete", "Complete", "Failed"} =>
                   /\ calls'[c].invoked = calls[c].invoked
                   /\ calls'[c].idx = calls[c].idx
             /\ (/\ calls[c].pc = "awaitStep"
                 /\ calls[c].pending.threw \/ ~calls[c].pending.success) => q = "Failed"
             /\ q = "Complete" => calls'[c].idx > Len(calls'[c].migrationPath)

\* C33: every run of executeMigrations goes Idle -> (path resolved) -> NoopComplete, or
\* -> Running -> Complete or Failed, by no other edge and never abandoned for a new
\* invocation; the first failed step takes it to Failed, after which it starts no
\* step; and, every procedure that is invoked settling, a run that is Running reaches
\* Complete or Failed (a run that is not Running is Idle or at NoopComplete: the path
\* is resolved in the call of executeMigrations itself).
C33_RunStateMachine ==
    /\ [][\A c \in Callers : RunStep(c)]_vars
    /\ \A c \in Callers :
          (RunPhase(calls[c]) = "Running")
              ~> (RunPhase(calls[c]) \in {"Complete", "Failed"})

\* a run has ended Failed at its second procedure and its invocation has returned
C33_Witness ==
    \E c \in Callers :
        /\ calls[c].pc = "returned"
        /\ RunPhase(calls[c]) = "Failed"
        /\ Len(calls[c].invoked) = 2
        /\ Len(calls[c].migrationPath) = 3

\* C34: renameField is idempotent.  After one call renameField(oldName, newName), a
\* second call with the same arguments leaves the store as the first call left it and
\* ends the way the first did, for every stored collection and all field names, equal
\* ones included.
C34_RenameFieldIdempotent ==
    probe.op = "renameField" =>
        LET again == renameField(localStorage, probe.argA, probe.argB)
        IN  /\ again.store = localStorage
            /\ again.threw = probe.threw

\* a call that moved the industry of the first of two records to its sector, the
\* second record holding neither
C34_Witness ==
    /\ probe.op = "renameField"
    /\ probe.argA = "industry"
    /\ probe.argB = "sector"
    /\ HasRecords(probe.before)
    /\ Len(Records(probe.before)) = 2
    /\ Records(probe.before)[1]["industry"] = "Media"
    /\ Records(probe.before)[2]["industry"] = Absent
    /\ Records(localStorage)[1]["sector"] = "Media"
    /\ Records(localStorage)[1]["industry"] = Absent
    /\ localStorage # probe.before

\* the invocation has returned from a first run or from a successful migration run
Completed(r) ==
    /\ r.pc = "returned"
    /\ r.status.firstRun \/ (r.migrationNeeded /\ r.migrationResult.success)

\* C35: once an invocation has returned from a first run or from a successful
\* migration run, every later invocation (same build) has returned in its first step
\* with firstRun = false and updated = false, has resolved no path, invoked no
\* procedure, not written the marker, and the store is the store it was called on.
C35_SecondStartIsNoOp ==
    \A c \in Callers : \A d \in Callers :
        (Completed(calls[c]) /\ calls[d].callNo > calls[c].callNo) =>
            /\ calls[d].pc = "returned"
            /\ ~calls[d].status.threw
            /\ ~calls[d].status.firstRun
            /\ ~calls[d].status.updated
            /\ ~calls[d].migrationNeeded
            /\ calls[d].migrationPath = << >>
            /\ calls[d].invoked = << >>
            /\ calls[d].markerWrites = 0
            /\ localStorage = calls[d].storeAtCall

\* the startup invocation migrated the store through two procedures and the re-check
\* has returned
C35_Witness ==
    /\ Completed(calls["startup"])
    /\ Len(calls["startup"].invoked) = 2
    /\ calls["startup"].storeAtCall # localStorage
    /\ calls["recheck"].pc = "returned"
    /\ calls["recheck"].callNo = 2

\* how often the invocations of the session have started the procedure of version v
TimesStarted(v) ==
    Cardinality(UNION { { <<c, i>> : i \in { j \in 1..Len(calls[c].invoked) :
                                                calls[c].invoked[j] = v } } :
                        c \in Callers })

\* no invocation has been rejected and no run has a failed or rejected step
NoRunFailed ==
    \A c \in Callers :
        /\ calls[c].pc # "rejected"
        /\ calls[c].migrationResult.success
        /\ calls[c].pc = "awaitStep" =>
              calls[c].pending.success /\ ~calls[c].pending.threw

C37_NeedsMigrationAgreesWithPath ==
    (/\ probe.op = "needsMigration"
     /\ probe.fromVersion \in HistoryVersions
     /\ probe.toVersion \in HistoryVersions
     /\ compareVersions(probe.fromVersion, probe.toVersion).value < 0) =>
        /\ ~probe.needed.threw
        /\ probe.needed.value <=>
              getMigrationPath(VERSION_HISTORY, probe.fromVersion,
                               probe.toVersion).path # << >>

\* C38: clearAllStorage(exceptKeys) leaves in the store exactly the keys of exceptKeys
\* that were present before the call, each with its previous value, and removes every
\* other key.
C38_ClearAllStorageFrame ==
    probe.op = "clearAllStorage" =>
        /\ ~probe.result.threw
        /\ \A k \in DOMAIN probe.before :
              IF k \in probe.exceptKeys
              THEN k \in DOMAIN localStorage /\ localStorage[k] = probe.before[k]
              ELSE k \notin DOMAIN localStorage
        /\ \A k \in DOMAIN localStorage : k \in DOMAIN probe.before

\* the marker and the column order are preserved with their values, the companies and
\* a review cache are removed
C38_Witness ==
    /\ probe.op = "clearAllStorage"
    /\ probe.exceptKeys = {VERSION_STORAGE_KEY, REVIEWS_TABLE_COLUMN_ORDER}
    /\ {VERSION_STORAGE_KEY, COMPANIES_KEY, "reviews_1"} \subseteq DOMAIN probe.before
    /\ DOMAIN localStorage = {VERSION_STORAGE_KEY, REVIEWS_TABLE_COLUMN_ORDER}
    /\ localStorage[VERSION_STORAGE_KEY] = probe.before[VERSION_STORAGE_KEY]

====
